---- MODULE Spec2Model ----
(***************************************************************************)
(* A model of the chat bookkeeping bot: the free-text payment parser of    *)
(* bot/handlers/chat_parser.py (regular-expression field extraction, date  *)
(* and amount normalisers, classifier) computed character by character,    *)
(* and the message handlers around it (routing, store, replies,            *)
(* reactions).                                                             *)
(*                                                                         *)
(* A text is a sequence of characters, each character a one-character      *)
(* string.  Cyrillic characters are written as named characters: "cy_k"    *)
(* is the small letter ka, "CY_K" the capital one, and so on.              *)
(***************************************************************************)
EXTENDS Integers, Sequences, FiniteSets, TLC

(***************************************************************************)
(* Characters                                                              *)
(***************************************************************************)

\* The absent value (Python's None) of a typed field.
None == [none |-> TRUE]

NL == "\n"

\* What \s of the re module matches, and what str.strip() strips.
IsSpace(c) == c \in {" ", "\t", "\n", "\r", "\f"}

\* What \d matches.
IsDigit(c) == c \in {"0", "1", "2", "3", "4", "5", "6", "7", "8", "9"}

DigitVal(c) ==
    CASE c = "0" -> 0 [] c = "1" -> 1 [] c = "2" -> 2 [] c = "3" -> 3
      [] c = "4" -> 4 [] c = "5" -> 5 [] c = "6" -> 6 [] c = "7" -> 7
      [] c = "8" -> 8 [] c = "9" -> 9

\* str.lower() on one character: the capitals and their small letters.
LowerMap ==
    [A |-> "a", B |-> "b", C |-> "c", D |-> "d", E |-> "e", F |-> "f",
     G |-> "g", H |-> "h", I |-> "i", J |-> "j", K |-> "k", L |-> "l",
     M |-> "m", N |-> "n", O |-> "o", P |-> "p", Q |-> "q", R |-> "r",
     S |-> "s", T |-> "t", U |-> "u", V |-> "v", W |-> "w", X |-> "x",
     Y |-> "y", Z |-> "z",
     CY_A |-> "cy_a", CY_V |-> "cy_v", CY_G |-> "cy_g", CY_D |-> "cy_d",
     CY_E |-> "cy_e", CY_I |-> "cy_i", CY_K |-> "cy_k", CY_L |-> "cy_l",
     CY_M |-> "cy_m", CY_N |-> "cy_n", CY_O |-> "cy_o", CY_P |-> "cy_p",
     CY_R |-> "cy_r", CY_S |-> "cy_s", CY_T |-> "cy_t", CY_U |-> "cy_u",
     CY_YA |-> "cy_ya", CY_SOFT |-> "cy_soft"]

LowerChar(c) == IF c \in DOMAIN LowerMap THEN LowerMap[c] ELSE c

\* str.lower()
Lower(t) == [i \in 1..Len(t) |-> LowerChar(t[i])]

\* str.strip(): the text without its leading and trailing white space.
Strip(t) ==
    LET keep == {i \in 1..Len(t) : ~IsSpace(t[i])}
    IN  IF keep = {} THEN << >>
        ELSE LET lo == CHOOSE i \in keep : \A j \in keep : i <= j
                 hi == CHOOSE i \in keep : \A j \in keep : j <= i
             IN  SubSeq(t, lo, hi)

(***************************************************************************)
(* The label vocabulary of the patterns                                    *)
(***************************************************************************)

L_date == <<"d", "a", "t", "e">>
L_amount == <<"a", "m", "o", "u", "n", "t">>
L_sum == <<"s", "u", "m">>
L_client == <<"c", "l", "i", "e", "n", "t">>
L_teacher == <<"t", "e", "a", "c", "h", "e", "r">>
L_to == <<"t", "o">>
L_category == <<"c", "a", "t", "e", "g", "o", "r", "y">>
L_recipient == <<"r", "e", "c", "i", "p", "i", "e", "n", "t">>
L_data == <<"cy_d", "cy_a", "cy_t", "cy_a">>
L_summa == <<"cy_s", "cy_u", "cy_m", "cy_m", "cy_a">>
L_klient == <<"cy_k", "cy_l", "cy_i", "cy_e", "cy_n", "cy_t">>
L_prepodavatel ==
    <<"cy_p", "cy_r", "cy_e", "cy_p", "cy_o", "cy_d", "cy_a", "cy_v",
      "cy_a", "cy_t", "cy_e", "cy_l", "cy_soft">>
L_kategoriya ==
    <<"cy_k", "cy_a", "cy_t", "cy_e", "cy_g", "cy_o", "cy_r", "cy_i", "cy_ya">>
L_komu == <<"cy_k", "cy_o", "cy_m", "cy_u">>

(***************************************************************************)
(* The regular expressions, as re.search evaluates them                    *)
(***************************************************************************)

\* No match (re.search returned None); a match carries group(1)'s span.
NoMatch == [start |-> 0, stop |-> 0]

\* One label alternative matches at index i (re.IGNORECASE).
AltAt(t, i, alt) ==
    /\ i + Len(alt) - 1 <= Len(t)
    /\ \A k \in 1..Len(alt) : LowerChar(t[i + k - 1]) = alt[k]

\* Greedy \s* from index p: the index of the first character that is no
\* white space, Len(t) + 1 when there is none.
RECURSIVE SkipSpace(_, _)
SkipSpace(t, p) ==
    IF p > Len(t) \/ ~IsSpace(t[p]) THEN p ELSE SkipSpace(t, p + 1)

\* (?:alt)\s*[:\-] at index i: the index after the separator, 0 for no match.
LabelSepAt(t, i, alt) ==
    IF AltAt(t, i, alt)
    THEN LET p == SkipSpace(t, i + Len(alt))
         IN  IF p <= Len(t) /\ t[p] \in {":", "-"} THEN p + 1 ELSE 0
    ELSE 0

\* Greedy .+ from index q (a character other than a line break): the index
\* of the last character before the next line break.
RECURSIVE LineEnd(_, _)
LineEnd(t, q) ==
    IF q + 1 > Len(t) \/ t[q + 1] = NL THEN q ELSE LineEnd(t, q + 1)

\* The largest index in q0..p that holds no line break, 0 if there is none.
RECURSIVE LastNonBreak(_, _, _)
LastNonBreak(t, q0, p) ==
    IF p < q0 THEN 0
    ELSE IF t[p] # NL THEN p ELSE LastNonBreak(t, q0, p - 1)

\* \s*(.+) from index q0, the index after the separator.  \s* takes all the
\* white space; when that leaves nothing for .+ it gives characters back
\* one at a time until .+ finds a character that is no line break.
CaptureFrom(t, q0) ==
    LET q == SkipSpace(t, q0)
    IN  IF q <= Len(t)
        THEN [start |-> q, stop |-> LineEnd(t, q)]
        ELSE LET b == LastNonBreak(t, q0, Len(t))
             IN  IF b = 0 THEN NoMatch ELSE [start |-> b, stop |-> LineEnd(t, b)]

\* (?:alts[k]|alts[k+1]|...)\s*[:\-]\s*(.+) anchored at index i.
RECURSIVE FieldMatchAt(_, _, _, _)
FieldMatchAt(t, i, alts, k) ==
    IF k > Len(alts) THEN NoMatch
    ELSE LET q0 == LabelSepAt(t, i, alts[k])
             m == IF q0 = 0 THEN NoMatch ELSE CaptureFrom(t, q0)
         IN  IF m # NoMatch THEN m ELSE FieldMatchAt(t, i, alts, k + 1)

\* re.search of a field pattern: the leftmost index at which it matches.
RECURSIVE FieldSearchFrom(_, _, _)
FieldSearchFrom(t, i, alts) ==
    IF i > Len(t) THEN NoMatch
    ELSE LET m == FieldMatchAt(t, i, alts, 1)
         IN  IF m # NoMatch THEN m ELSE FieldSearchFrom(t, i + 1, alts)

re_search_field(alts, t) == FieldSearchFrom(t, 1, alts)

\* match.group(1)
Group1(t, m) == SubSeq(t, m.start, m.stop)

\* re.search of a classifier keyword (?:alts)\s*[:\-] with re.IGNORECASE.
re_search_keyword(alts, t) ==
    \E i \in 1..Len(t) : \E k \in 1..Len(alts) : LabelSepAt(t, i, alts[k]) # 0

(***************************************************************************)
(* parse_date: datetime.strptime over the five formats                     *)
(***************************************************************************)

\* A format is a sequence of directives ("%d", "%m", "%Y", "%y") and
\* literal characters.
formats ==
    << <<"%d", ".", "%m", ".", "%Y">>,
       <<"%d", ".", "%m", ".", "%y">>,
       <<"%Y", "-", "%m", "-", "%d">>,
       <<"%d", "/", "%m", "/", "%Y">>,
       <<"%d", "-", "%m", "-", "%Y">> >>

IsDirective(f) == f \in {"%d", "%m", "%Y", "%y"}

DigitAt(s, p) == p <= Len(s) /\ IsDigit(s[p])

Num2(s, p) == 10 * DigitVal(s[p]) + DigitVal(s[p + 1])

\* The ways a directive can match at index p, as <<length, value>>, in the
\* order strptime's regular expression tries its alternatives:
\*   %d  3[0-1] | [1-2]\d | 0[1-9] | [1-9] | " "[1-9]
\*   %m  1[0-2] | 0[1-9] | [1-9]
\*   %Y  \d\d\d\d          %y  \d\d
DirectiveOptions(f, s, p) ==
    LET two == DigitAt(s, p) /\ DigitAt(s, p + 1)
        v2 == Num2(s, p)
        one == DigitAt(s, p) /\ s[p] # "0"
    IN  CASE f = "%d" ->
                (IF two /\ ((v2 >= 30 /\ v2 <= 31) \/ (v2 >= 10 /\ v2 <= 29)
                            \/ (v2 >= 1 /\ v2 <= 9))
                 THEN << <<2, v2>> >> ELSE << >>)
                \o (IF one THEN << <<1, DigitVal(s[p])>> >> ELSE << >>)
                \o (IF p + 1 <= Len(s) /\ s[p] = " " /\ DigitAt(s, p + 1)
                       /\ s[p + 1] # "0"
                    THEN << <<2, DigitVal(s[p + 1])>> >> ELSE << >>)
          [] f = "%m" ->
                (IF two /\ v2 >= 1 /\ v2 <= 12 THEN << <<2, v2>> >> ELSE << >>)
                \o (IF one THEN << <<1, DigitVal(s[p])>> >> ELSE << >>)
          [] f = "%Y" ->
                IF two /\ DigitAt(s, p + 2) /\ DigitAt(s, p + 3)
                THEN << <<4, 100 * v2 + Num2(s, p + 2)>> >> ELSE << >>
          [] f = "%y" ->
                IF two THEN << <<2, v2>> >> ELSE << >>

\* No match of a format.
NoParse == [ok |-> FALSE, stop |-> 0, d |-> 0, m |-> 0, y |-> 0, yy |-> 0]

\* The value a directive read, kept with the others.
WithValue(acc, f, val) ==
    CASE f = "%d" -> [acc EXCEPT !.d = val]
      [] f = "%m" -> [acc EXCEPT !.m = val]
      [] f = "%Y" -> [acc EXCEPT !.y = val]
      [] f = "%y" -> [acc EXCEPT !.yy = val]

\* The format's regular expression matched from index p on, format element
\* k on, having read the values acc.  The options of a directive are tried
\* in order, from option o on, and the first that lets the rest of the
\* format match is taken (backtracking).
RECURSIVE MatchFormat(_, _, _, _, _, _)
RECURSIVE TryOption(_, _, _, _, _, _, _)
RECURSIVE OrNextOption(_, _, _, _, _, _, _)
MatchFormat(s, p, fmt, k, acc, o) ==
    IF k > Len(fmt) THEN [acc EXCEPT !.ok = TRUE, !.stop = p]
    ELSE IF IsDirective(fmt[k])
    THEN TryOption(s, p, fmt, k, acc, o, DirectiveOptions(fmt[k], s, p))
    ELSE IF p <= Len(s) /\ s[p] = fmt[k]
         THEN MatchFormat(s, p + 1, fmt, k + 1, acc, 1)
         ELSE NoParse

TryOption(s, p, fmt, k, acc, o, opts) ==
    IF o > Len(opts) THEN NoParse
    ELSE OrNextOption(MatchFormat(s, p + opts[o][1], fmt, k + 1,
                                  WithValue(acc, fmt[k], opts[o][2]), 1),
                      s, p, fmt, k, acc, o)

OrNextOption(r, s, p, fmt, k, acc, o) ==
    IF r.ok THEN r ELSE MatchFormat(s, p, fmt, k, acc, o + 1)

IsLeap(y) == (y % 4 = 0 /\ y % 100 # 0) \/ y % 400 = 0

DaysInMonth(y, m) ==
    IF m = 2 THEN (IF IsLeap(y) THEN 29 ELSE 28)
    ELSE IF m \in {4, 6, 9, 11} THEN 30 ELSE 31

\* The year of a match: %Y as read; a two-digit year below 69 is in
\* 2000..2068, the others in 1969..1999.
YearOf(r, fmt) ==
    IF \E k \in 1..Len(fmt) : fmt[k] = "%Y" THEN r.y
    ELSE IF r.yy < 69 THEN 2000 + r.yy ELSE 1900 + r.yy

\* date(year, month, day), None for ValueError.
DateOrNone(year, month, day) ==
    IF year < 1 \/ day > DaysInMonth(year, month) THEN None
    ELSE [y |-> year, m |-> month, d |-> day]

\* MatchedDate, had strptime ignored what follows the match: C17 tells the
\* two apart.
MatchedDate_of_a_prefix(r, s, fmt) ==
    IF ~r.ok THEN None
    ELSE DateOrNone(YearOf(r, fmt), r.m, r.d)

\* The date of a match r of format fmt on s, None for ValueError: the
\* expression does not match, data remains after the match, or the date
\* does not exist.
MatchedDate(r, s, fmt) ==
    IF ~r.ok \/ r.stop # Len(s) + 1 THEN None
    ELSE DateOrNone(YearOf(r, fmt), r.m, r.d)

\* datetime.strptime(s, fmt).date()
strptime(s, fmt) == MatchedDate(MatchFormat(s, 1, fmt, 1, NoParse, 1), s, fmt)

\* for fmt in formats: try: return strptime(...) except ValueError: continue
RECURSIVE FirstFormat(_, _)
RECURSIVE OrNextFormat(_, _, _)
FirstFormat(s, k) ==
    IF k > Len(formats) THEN None
    ELSE OrNextFormat(strptime(s, formats[k]), s, k)

OrNextFormat(r, s, k) == IF r # None THEN r ELSE FirstFormat(s, k + 1)

parse_date(date_str) == FirstFormat(Strip(date_str), 1)

(***************************************************************************)
(* parse_amount                                                            *)
(***************************************************************************)

\* re.sub(r"[^\d.,]", "", s): the digits, periods and commas of s.
KeepAmountChars(s) == SelectSeq(s, LAMBDA c : IsDigit(c) \/ c \in {".", ","})

\* str.replace on single characters; to = "" removes the character.
ReplaceChar(s, from, to) ==
    IF to = "" THEN SelectSeq(s, LAMBDA c : c # from)
    ELSE [i \in 1..Len(s) |-> IF s[i] = from THEN to ELSE s[i]]

Contains(s, c) == \E i \in 1..Len(s) : s[i] = c

RECURSIVE DigitsValue(_, _)
DigitsValue(s, acc) ==
    IF s = << >> THEN acc
    ELSE DigitsValue(Tail(s), 10 * acc + DigitVal(Head(s)))

RECURSIVE DropTrailingZeros(_)
DropTrailingZeros(s) ==
    IF s # << >> /\ s[Len(s)] = "0"
    THEN DropTrailingZeros(SubSeq(s, 1, Len(s) - 1))
    ELSE s

\* float(s) of a string of digits and periods whose period, if any, is at
\* index dot (Len(s) + 1 without one).  The number is held exactly, as
\* mant / 10^exp with the fraction's trailing zeros dropped.
Decimal(int, frac) == [mant |-> DigitsValue(int \o frac, 0), exp |-> Len(frac)]

FloatAt(s, dot) ==
    Decimal(SubSeq(s, 1, dot - 1), DropTrailingZeros(SubSeq(s, dot + 1, Len(s))))

\* float(s), None for ValueError: the string needs a digit and at most one
\* period.
FloatOf(s, dots) ==
    IF Cardinality(dots) > 1 \/ Len(s) = Cardinality(dots) THEN None
    ELSE FloatAt(s, IF dots = {} THEN Len(s) + 1 ELSE CHOOSE i \in dots : TRUE)

float(s) == FloatOf(s, {i \in 1..Len(s) : s[i] = "."})

\* SettleCommas, had every comma been read as a decimal point: C15 tells
\* the two apart.
SettleCommas_all_decimal(cleaned) ==
    IF Contains(cleaned, ",")
    THEN ReplaceChar(cleaned, ",", ".")
    ELSE cleaned

\* The comma rule: with a period the commas separate thousands, without
\* one the comma is the decimal point.
SettleCommas(cleaned) ==
    IF Contains(cleaned, ",") /\ Contains(cleaned, ".")
    THEN ReplaceChar(cleaned, ",", "")
    ELSE IF Contains(cleaned, ",")
    THEN ReplaceChar(cleaned, ",", ".")
    ELSE cleaned

parse_amount(amount_str) == float(SettleCommas(KeepAmountChars(Strip(amount_str))))

\* Python's truth value of a parsed date or amount: None and 0.0 are false.
\* Truthy, had the parsers compared with None only: C16 tells the two apart.
Truthy_not_none(v) == v # None

Truthy(v) == v # None /\ ("mant" \in DOMAIN v => v.mant # 0)

(***************************************************************************)
(* The record parsers and the classifier                                   *)
(***************************************************************************)

\* parse_payin_message's patterns: key, label alternatives, field name.
payin_patterns ==
    << [key |-> "date", alts |-> <<L_data, L_date>>, field_name |-> "date"],
       [key |-> "amount", alts |-> <<L_summa, L_amount, L_sum>>,
        field_name |-> "amount"],
       [key |-> "client", alts |-> <<L_klient, L_client>>,
        field_name |-> "client"],
       [key |-> "to", alts |-> <<L_prepodavatel, L_teacher, L_to>>,
        field_name |-> "to"] >>

\* parse_payout_message's patterns.
payout_patterns ==
    << [key |-> "date", alts |-> <<L_data, L_date>>, field_name |-> "date"],
       [key |-> "amount", alts |-> <<L_summa, L_amount, L_sum>>,
        field_name |-> "amount"],
       [key |-> "category", alts |-> <<L_kategoriya, L_category>>,
        field_name |-> "category"],
       [key |-> "to", alts |-> <<L_komu, L_to>>, field_name |-> "to"] >>

\* ParseFailure, had a failure kept what was read as its data: C21 tells the
\* two apart.
ParseFailure_keeping_data(err) == [success |-> FALSE, data |-> err, error |-> err]

\* ParseResult(success, data, error)
ParseFailure(err) == [success |-> FALSE, data |-> None, error |-> err]

ParseSuccess(d) == [success |-> TRUE, data |-> d, error |-> None]

\* for key, (pattern, field_name) in patterns.items(): re.search(pattern, t)
search_all(patterns, t) ==
    [k \in 1..Len(patterns) |-> re_search_field(patterns[k].alts, t)]

\* result[key] = match.group(1).strip()
stripped_groups(t, found) ==
    [k \in 1..Len(found) |->
        IF found[k] = NoMatch THEN << >> ELSE Strip(Group1(t, found[k]))]

\* missing_of, had the loop stopped at the first pattern without a match:
\* C6 tells the two apart.
first_missing_of(patterns, found) ==
    IF \A k \in 1..Len(patterns) : found[k] # NoMatch THEN << >>
    ELSE <<patterns[CHOOSE k \in 1..Len(patterns) :
                       /\ found[k] = NoMatch
                       /\ \A j \in 1..(k - 1) : found[j] # NoMatch].field_name>>

\* missing_fields: the field names of the patterns without a match, in the
\* order of the patterns.
missing_of(patterns, found) ==
    [j \in 1..Len(SelectSeq([k \in 1..Len(patterns) |-> k],
                            LAMBDA k : found[k] = NoMatch)) |->
        patterns[SelectSeq([k \in 1..Len(patterns) |-> k],
                           LAMBDA k : found[k] = NoMatch)[j]].field_name]

\* "Get original case values": the value of a name field, searched again in
\* the text as typed; the lower-cased value stays when that finds nothing.
original_value(m, text, lower_value) ==
    IF m # NoMatch THEN Strip(Group1(text, m)) ELSE lower_value

original_case(pattern, text, lower_value) ==
    original_value(re_search_field(pattern.alts, text), text, lower_value)

\* "Validate date", "Validate amount", then success.  The result's values
\* are in the order of the patterns.
validated(patterns, text, result, parsed_date, parsed_amount) ==
    IF ~Truthy(parsed_date)
    THEN ParseFailure([class |-> "Invalid date format", raw |-> result[1]])
    ELSE IF ~Truthy(parsed_amount)
    THEN ParseFailure([class |-> "Invalid amount format", raw |-> result[2]])
    ELSE ParseSuccess(<<parsed_date, parsed_amount,
                        original_case(patterns[3], text, result[3]),
                        original_case(patterns[4], text, result[4])>>)

\* checked, had the date been validated before the missing fields were
\* reported: C5 tells the two apart.
checked_date_first(patterns, text, result, missing_fields) ==
    IF ~Truthy(parse_date(result[1]))
    THEN ParseFailure([class |-> "Invalid date format", raw |-> result[1]])
    ELSE IF missing_fields # << >>
    THEN ParseFailure([class |-> "Missing fields", fields |-> missing_fields])
    ELSE validated(patterns, text, result,
                   parse_date(result[1]), parse_amount(result[2]))

\* "Check for missing fields", then the validation.
checked(patterns, text, result, missing_fields) ==
    IF missing_fields # << >>
    THEN ParseFailure([class |-> "Missing fields", fields |-> missing_fields])
    ELSE validated(patterns, text, result,
                   parse_date(result[1]), parse_amount(result[2]))

extracted(patterns, text, text_lower, found) ==
    checked(patterns, text, stripped_groups(text_lower, found),
            missing_of(patterns, found))

searched(patterns, text, text_lower) ==
    extracted(patterns, text, text_lower, search_all(patterns, text_lower))

\* The body shared by parse_payin_message and parse_payout_message: the
\* patterns are searched in the lower-cased text, the missing fields are
\* collected, date and amount are validated in that order, and the two
\* name fields (patterns 3 and 4) are extracted again from the text as typed.
parse_with(patterns, text) == searched(patterns, text, Lower(text))

payin_data(r) ==
    IF r.success
    THEN ParseSuccess([date |-> r.data[1], amount |-> r.data[2],
                       client |-> r.data[3], teacher |-> r.data[4]])
    ELSE r

parse_payin_message(text) == payin_data(parse_with(payin_patterns, text))

payout_data(r) ==
    IF r.success
    THEN ParseSuccess([date |-> r.data[1], amount |-> r.data[2],
                       category |-> r.data[3], recipient |-> r.data[4]])
    ELSE r

parse_payout_message(text) == payout_data(parse_with(payout_patterns, text))

\* looks_like_payment_message's keywords.
keywords ==
    << <<L_data, L_date>>,
       <<L_summa, L_amount, L_sum>>,
       <<L_klient, L_client>>,
       <<L_prepodavatel, L_teacher, L_to>>,
       <<L_kategoriya, L_category>>,
       <<L_komu, L_recipient, L_to>> >>

\* looks_like_payment_message, had it asked for every keyword: C26 tells the
\* two apart.
looks_like_payment_message_every_keyword(text) ==
    LET matches == Cardinality({k \in 1..Len(keywords) :
                                   re_search_keyword(keywords[k], text)})
    IN  matches >= Len(keywords)

looks_like_payment_message(text) ==
    LET matches == Cardinality({k \in 1..Len(keywords) :
                                   re_search_keyword(keywords[k], text)})
    IN  matches >= 2

CANCEL == <<"c", "a", "n", "c", "e", "l">>

\* is_cancel_command, had it asked only for a text after trimming: C13
\* tells the two apart.
is_cancel_command_any_text(text) == Strip(text) # << >>

is_cancel_command(text) == Lower(Strip(text)) = CANCEL

(***************************************************************************)
(* Texts                                                                   *)
(***************************************************************************)

\* The lines a text is made of, per field, in the order date, amount,
\* client, teacher, category, recipient.  Each field has the lines users
\* type for it: other labels of the vocabulary, either separator, a value
\* that cannot be normalised, a label with nothing or only a blank after
\* it, a hyphenated name.
S_date_ok == <<"d", "a", "t", "e", ":", " ", "0", "1", ".", "0", "2", ".", "2", "0", "2", "6">>
S_date_bad == <<"D", "a", "t", "e", " ", "-", " ", "3", "1", ".", "0", "2", ".", "2", "6">>
S_amount_ok == <<"a", "m", "o", "u", "n", "t", ":", " ", "5", "0">>
S_amount_bad == <<"s", "u", "m", ":", " ", "x">>
S_client_ok == <<"C", "l", "i", "e", "n", "t", ":", " ", "L", "i">>
S_client_empty == <<"c", "l", "i", "e", "n", "t", ":">>
S_client_hyphen == <<"c", "l", "i", "e", "n", "t", ":", " ", "O", "t", "o", "-", "K">>
S_teacher_ok == <<"t", "e", "a", "c", "h", "e", "r", ":", " ", "B", "o">>
S_to_ok == <<"t", "o", ":", " ", "B", "o">>
S_to_blank == <<"t", "o", ":", " ">>
S_category_ok == <<"c", "a", "t", "e", "g", "o", "r", "y", ":", " ", "P", "a", "y">>
S_recipient_ok == <<"r", "e", "c", "i", "p", "i", "e", "n", "t", ":", " ", "S", "i", "d">>
S_komu_ok == <<"CY_K", "cy_o", "cy_m", "cy_u", " ", "-", " ", "S", "i", "d">>

\* The lines of each field; index 0 of a choice means the field is absent.
FieldLines ==
    << <<S_date_ok, S_date_bad>>,
       <<S_amount_ok, S_amount_bad>>,
       <<S_client_ok, S_client_empty, S_client_hyphen>>,
       <<S_teacher_ok, S_to_ok, S_to_blank>>,
       <<S_category_ok>>,
       <<S_recipient_ok, S_komu_ok>> >>

NFields == Len(FieldLines)

\* The most lines a text has.
MaxLines == 4

\* "\n".join(lines)
RECURSIVE JoinLines(_)
JoinLines(lines) ==
    IF lines = << >> THEN << >>
    ELSE IF Len(lines) = 1 THEN lines[1]
    ELSE lines[1] \o <<NL>> \o JoinLines(Tail(lines))

Reverse(q) == [i \in 1..Len(q) |-> q[Len(q) + 1 - i]]

\* The text of a choice of lines (choice[f] = 0: no line for field f), the
\* fields in the order above or in the opposite order.
TextOf(choice, reversed) ==
    LET present == SelectSeq([f \in 1..NFields |-> f], LAMBDA f : choice[f] # 0)
        lines == [j \in 1..Len(present) |-> FieldLines[present[j]][choice[present[j]]]]
    IN  JoinLines(IF reversed THEN Reverse(lines) ELSE lines)

Choices ==
    {c \in [1..NFields -> 0..3] :
        /\ \A f \in 1..NFields : c[f] <= Len(FieldLines[f])
        /\ Cardinality({f \in 1..NFields : c[f] # 0}) <= MaxLines}

Texts == {TextOf(c, r) : c \in Choices, r \in BOOLEAN}

(***************************************************************************)
(* State                                                                   *)
(***************************************************************************)

VARIABLES
    messages,      \* the messages the transport delivered, in arrival order
    pc,            \* per message: where its handler stands
    parsed,        \* per message: the handler's ParseResult
    deleted,       \* per message: what the cancel handler's delete returned
    payments_in,   \* table payments_in: a set of rows
    payments_out,  \* table payments_out: a set of rows
    log,           \* what the handlers did, in order: appends, deletes,
                   \* replies, reactions, answers
    transport,     \* what the transport delivers in this run: in which
                   \* conversations, which texts, how many messages
    p_text,        \* a function called alone: the text (the class) given
    p_call,        \* ... the function applied to it ("none" before)
    p_result,      \* ... and what it returned
    callback       \* the callback query of the admin menu being handled:
                   \* who sent it, its handler and where the handler stands,
                   \* what it read from the store, what it sent

bot_vars == <<messages, pc, parsed, deleted, payments_in, payments_out, log,
             transport, callback>>

parse_vars == <<p_text, p_call, p_result>>

vars == <<messages, pc, parsed, deleted, payments_in, payments_out, log, transport,
          p_text, p_call, p_result, callback>>

\* settings.ru_payin_chat_id, settings.eng_payin_chat_id,
\* settings.payout_chat_id: three distinct conversations.
ru_payin_chat_id == 101

eng_payin_chat_id == 102

payout_chat_id == 103

all_chat_ids == {ru_payin_chat_id, eng_payin_chat_id, payout_chat_id}

\* The most messages delivered in a run.
MaxMessages == 2

\* A ParseResult not computed yet.
NoResult == [success |-> FALSE, data |-> None, error |-> None]

\* No callback query has come yet.
NoCallback ==
    [handler |-> "none", from_user |-> None, pc |-> "done", today |-> None,
     reads |-> << >>, sent |-> << >>]

(***************************************************************************)
(* The texts users send to the monitored conversations                     *)
(***************************************************************************)

M_payin ==
    <<"d", "a", "t", "e", ":", "1", ".", "2", ".", "2", "6", NL,
      "s", "u", "m", ":", "5", NL,
      "c", "l", "i", "e", "n", "t", ":", "A", NL,
      "t", "o", ":", "B">>

M_payout ==
    <<"d", "a", "t", "e", ":", "1", ".", "2", ".", "2", "6", NL,
      "s", "u", "m", ":", "5", NL,
      "c", "a", "t", "e", "g", "o", "r", "y", ":", "C", NL,
      "t", "o", ":", "B">>

M_cancel == <<"C", "a", "n", "c", "e", "l", " ">>

M_start == <<"/", "s", "t", "a", "r", "t">>

\* A message without text (a photo, a sticker): message.text is None.
M_none == << >>

MessageTexts == {M_payin, M_payout, M_cancel, M_start, M_none}

\* A payment of either schema with the amount zero.
M_zero ==
    <<"d", "a", "t", "e", ":", "1", ".", "2", ".", "2", "6", NL,
      "s", "u", "m", ":", "0", NL,
      "c", "l", "i", "e", "n", "t", ":", "A", NL,
      "c", "a", "t", "e", "g", "o", "r", "y", ":", "C", NL,
      "t", "o", ":", "B">>

\* A payment that both schemas parse.
M_both ==
    <<"d", "a", "t", "e", ":", "8", ".", "2", ".", "2", "6", NL,
      "s", "u", "m", ":", "7", NL,
      "c", "l", "i", "e", "n", "t", ":", "A", NL,
      "c", "a", "t", "e", "g", "o", "r", "y", ":", "C", NL,
      "t", "o", ":", "B">>

\* The texts of a conversation's payments and of their cancellation.
ConversationTexts(chat_id) ==
    {IF chat_id = payout_chat_id THEN M_payout ELSE M_payin, M_zero, M_cancel}

\* The most messages delivered in a run that stays in one conversation.
MaxConversationMessages == 3

(***************************************************************************)
(* Routing: the handlers' filters, in the order the routers and handlers   *)
(* are registered.  The first handler whose filters pass gets the message  *)
(* and no later handler sees it.                                           *)
(***************************************************************************)

\* text.split(maxsplit=1)[0]: the first run of characters that are no
\* white space.
FirstToken(text) ==
    LET a == SkipSpace(text, 1)
        RECURSIVE TokenEnd(_)
        TokenEnd(q) == IF q + 1 > Len(text) \/ IsSpace(text[q + 1]) THEN q
                       ELSE TokenEnd(q + 1)
    IN  IF a > Len(text) THEN << >> ELSE SubSeq(text, a, TokenEnd(a))

\* Command("start")
IsStartCommand(text) == FirstToken(text) = M_start

\* F.text, F.reply_to_message
HasText(m) == m.text # << >>

IsReply(m) == m.reply_to # 0

\* Route, had a payment text without a client label gone to the pay-out
\* handler whatever its conversation: C19 tells the two apart.
Route_by_content(m) ==
    IF IsStartCommand(m.text) THEN "cmd_start"
    ELSE IF m.chat_id \in {ru_payin_chat_id, eng_payin_chat_id}
            /\ IsReply(m) /\ HasText(m)
    THEN "handle_payin_cancel"
    ELSE IF m.chat_id = payout_chat_id /\ IsReply(m) /\ HasText(m)
    THEN "handle_payout_cancel"
    ELSE IF HasText(m) /\ ~IsReply(m) /\ re_search_field(<<L_klient, L_client>>, m.text) = NoMatch
    THEN "handle_payout"
    ELSE IF m.chat_id = ru_payin_chat_id THEN "handle_ru_payin"
    ELSE IF m.chat_id = eng_payin_chat_id THEN "handle_eng_payin"
    ELSE IF m.chat_id = payout_chat_id THEN "handle_payout"
    ELSE "debug_handler"

Route(m) ==
    IF IsStartCommand(m.text) THEN "cmd_start"
    ELSE IF m.chat_id \in {ru_payin_chat_id, eng_payin_chat_id}
            /\ IsReply(m) /\ HasText(m)
    THEN "handle_payin_cancel"
    ELSE IF m.chat_id = payout_chat_id /\ IsReply(m) /\ HasText(m)
    THEN "handle_payout_cancel"
    ELSE IF m.chat_id = ru_payin_chat_id THEN "handle_ru_payin"
    ELSE IF m.chat_id = eng_payin_chat_id THEN "handle_eng_payin"
    ELSE IF m.chat_id = payout_chat_id THEN "handle_payout"
    ELSE "debug_handler"

(***************************************************************************)
(* The store                                                               *)
(***************************************************************************)

\* The primary key of a new row: one more than the largest in the table.
NextId(table) ==
    IF table = {} THEN 1
    ELSE 1 + (CHOOSE n \in {r.id : r \in table} : \A r \in table : r.id <= n)

\* PaymentInCRUD.create
PaymentIn(table, d, chat_type, m) ==
    [id |-> NextId(table), date |-> d.date, amount |-> d.amount,
     client |-> d.client, teacher |-> d.teacher, chat_type |-> chat_type,
     message_id |-> m.message_id, chat_id |-> m.chat_id]

\* PaymentOutCRUD.create
PaymentOut(table, d, m) ==
    [id |-> NextId(table), date |-> d.date, amount |-> d.amount,
     category |-> d.category, recipient |-> d.recipient,
     message_id |-> m.message_id, chat_id |-> m.chat_id]

\* delete_by_message_id(message_id, chat_id): the rows it can delete.
MatchingRows(table, message_id, chat_id) ==
    {r \in table : r.message_id = message_id /\ r.chat_id = chat_id}

(***************************************************************************)
(* The handlers.  Updates are handled as concurrent tasks, and a handler   *)
(* gives way to the others at each await.  A step of the model is a        *)
(* handler's run from the arrival of its message to its store call, or     *)
(* from its store call to its end: what it sends to the transport          *)
(* (replies, reactions, answers) touches nothing the handlers share, and   *)
(* is logged in the handler's own order.                                   *)
(***************************************************************************)

\* The identifiers of the messages of a conversation so far.
IdsIn(chat_id) ==
    {messages[j].message_id : j \in {k \in 1..Len(messages) :
                                        messages[k].chat_id = chat_id}}

\* The messages the transport can deliver next: any text in any monitored
\* conversation, alone or as a reply to an earlier message of that
\* conversation, from an administrator or not (which only /start asks).
NewMessages ==
    IF Len(messages) >= transport.limit THEN {}
    ELSE UNION {
           {[chat_id |-> chat_id,
             message_id |-> Cardinality(IdsIn(chat_id)) + 1,
             text |-> text, reply_to |-> reply_to, from_admin |-> from_admin] :
               text \in transport.texts,
               reply_to \in {0} \cup IdsIn(chat_id),
               from_admin \in BOOLEAN} :
           chat_id \in transport.chat_ids}

\* Message m arrives and its handler runs to the await named label.
Deliver(m, label, result) ==
    /\ m.from_admin => IsStartCommand(m.text)
    /\ messages' = Append(messages, m)
    /\ parsed' = Append(parsed, result)
    /\ deleted' = Append(deleted, None)
    /\ pc' = Append(pc, label)

Goto(i, label) == pc' = [pc EXCEPT ![i] = label]

Logged(events) == log' = log \o events

\* await message.reply(body), from the handler of message i
Reply(i, body) == [type |-> "reply", msg |-> i, body |-> body]

\* await message.react([ReactionTypeEmoji(emoji)]) in try/except, on the
\* message message_id of the conversation of message i: Telegram accepts
\* the reaction or refuses it, and the handler goes on either way.
Reaction(i, message_id, emoji, delivered) ==
    [type |-> "react", msg |-> i, chat_id |-> messages[i].chat_id,
     message_id |-> message_id, emoji |-> emoji, delivered |-> delivered]

add_success_reaction(i, delivered) ==
    Reaction(i, messages[i].message_id, "thumbs up", delivered)

\* add_cancel_reaction, had the handler passed it the cancellation request
\* instead of the message replied to: C11 tells the two apart.
add_cancel_reaction_on_request(i, delivered) ==
    Reaction(i, messages[i].message_id, "thumbs down", delivered)

add_cancel_reaction(i, delivered) ==
    Reaction(i, messages[i].reply_to, "thumbs down", delivered)

\* cmd_start: the main menu for an administrator, nothing for anyone else.
cmd_start ==
    \E m \in NewMessages :
        /\ Route(m) = "cmd_start"
        /\ Deliver(m, "done", NoResult)
        /\ Logged(IF m.from_admin
                  THEN <<[type |-> "answer", msg |-> Len(messages) + 1,
                          body |-> "Main Menu"]>>
                  ELSE << >>)
        /\ UNCHANGED <<payments_in, payments_out, parse_vars, transport, callback>>

\* handle_payin_cancel and handle_payout_cancel up to the store call: not a
\* cancel command, or not a reply, ends the handler.
cancel_start(m, handler) ==
    /\ Route(m) = handler
    /\ Deliver(m, IF ~HasText(m) \/ ~is_cancel_command(m.text) THEN "done"
                  ELSE IF ~IsReply(m) THEN "done"
                  ELSE "delete",
               NoResult)
    /\ UNCHANGED <<payments_in, payments_out, log, parse_vars, transport, callback>>

handle_payin_cancel ==
    \E m \in NewMessages : cancel_start(m, "handle_payin_cancel")

handle_payout_cancel ==
    \E m \in NewMessages : cancel_start(m, "handle_payout_cancel")

\* f"{amount:,.2f}": the amount rounded to hundredths (half to even).
RECURSIVE Pow10(_)
Pow10(n) == IF n = 0 THEN 1 ELSE 10 * Pow10(n - 1)

RoundHalfEven(q, r, unit) ==
    IF 2 * r > unit \/ (2 * r = unit /\ q % 2 = 1) THEN q + 1 ELSE q

Hundredths(a) ==
    IF a.exp <= 2 THEN a.mant * Pow10(2 - a.exp)
    ELSE RoundHalfEven(a.mant \div Pow10(a.exp - 2), a.mant % Pow10(a.exp - 2),
                       Pow10(a.exp - 2))

Format2f(a) == [units |-> Hundredths(a) \div 100, hundredths |-> Hundredths(a) % 100]

\* The confirmation of a cancellation: amount and the two names of the row.
Cancelled(row) ==
    IF "client" \in DOMAIN row
    THEN [class |-> "Transaction cancelled", amount |-> Format2f(row.amount),
          client |-> row.client, teacher |-> row.teacher]
    ELSE [class |-> "Transaction cancelled", amount |-> Format2f(row.amount),
          category |-> row.category, recipient |-> row.recipient]

NotFound == [class |-> "Transaction not found in database"]

\* delete_by_message_id(message_id, chat_id) looks the row of a message up
\* and deletes it in one transaction: what it can return, a row it deleted
\* or None when no row matches.
delete_by_message_id(table, message_id, chat_id) ==
    IF MatchingRows(table, message_id, chat_id) = {} THEN {None}
    ELSE MatchingRows(table, message_id, chat_id)

\* The table after delete_by_message_id returned r, and what the deletion
\* leaves in the log.
deleted_from(table, r) == IF r = None THEN table ELSE table \ {r}

deletion(i, r, name) ==
    IF r = None THEN << >>
    ELSE <<[type |-> "delete", msg |-> i, table |-> name, row |-> r]>>

\* cancel_answers, had a reaction that fails ended the handler: C18 tells
\* the two apart.
cancel_answers_stopped_by_reaction(i, r, delivered) ==
    IF r # None
    THEN IF delivered
         THEN <<add_cancel_reaction(i, delivered), Reply(i, Cancelled(r))>>
         ELSE <<add_cancel_reaction(i, delivered)>>
    ELSE <<Reply(i, NotFound)>>

\* if deleted: the negative reaction on the original message, then the
\* confirmation; else: the not-found reply.
cancel_answers(i, r, delivered) ==
    IF r # None
    THEN <<add_cancel_reaction(i, delivered), Reply(i, Cancelled(r))>>
    ELSE <<Reply(i, NotFound)>>

\* cancel_finish, had the handler left the conversation out of the call:
\* C23 tells the two apart.
cancel_finish_by_message_id(i, table, other, name) ==
    /\ pc[i] = "delete"
    /\ \E r \in IF \E x \in table : x.message_id = messages[i].reply_to
              THEN {x \in table : x.message_id = messages[i].reply_to}
              ELSE {None} :
       \E delivered \in BOOLEAN :
          /\ deleted' = [deleted EXCEPT ![i] = r]
          /\ table' = deleted_from(table, r)
          /\ Logged(deletion(i, r, name) \o cancel_answers(i, r, delivered))
    /\ Goto(i, "done")
    /\ UNCHANGED <<messages, parsed, other, parse_vars, transport, callback>>

\* cancel_finish, had the handler looked the record up without deleting
\* it: C24 tells the two apart.
cancel_finish_reading_only(i, table, other, name) ==
    /\ pc[i] = "delete"
    /\ \E r \in delete_by_message_id(table, messages[i].reply_to,
                                     messages[i].chat_id) :
       \E delivered \in BOOLEAN :
          /\ deleted' = [deleted EXCEPT ![i] = r]
          /\ table' = table
          /\ Logged(deletion(i, r, name) \o cancel_answers(i, r, delivered))
    /\ Goto(i, "done")
    /\ UNCHANGED <<messages, parsed, other, parse_vars, transport, callback>>

\* The cancel handlers from the store call on.
cancel_finish(i, table, other, name) ==
    /\ pc[i] = "delete"
    /\ \E r \in delete_by_message_id(table, messages[i].reply_to,
                                     messages[i].chat_id) :
       \E delivered \in BOOLEAN :
          /\ deleted' = [deleted EXCEPT ![i] = r]
          /\ table' = deleted_from(table, r)
          /\ Logged(deletion(i, r, name) \o cancel_answers(i, r, delivered))
    /\ Goto(i, "done")
    /\ UNCHANGED <<messages, parsed, other, parse_vars, transport, callback>>

payin_cancel_delete ==
    \E i \in DOMAIN messages :
        /\ Route(messages[i]) = "handle_payin_cancel"
        /\ cancel_finish(i, payments_in, payments_out, "payments_in")

payout_cancel_delete ==
    \E i \in DOMAIN messages :
        /\ Route(messages[i]) = "handle_payout_cancel"
        /\ cancel_finish(i, payments_out, payments_in, "payments_out")

\* The handler's ParseResult: nothing is parsed without text or when the
\* classifier rejects the text.
handler_parse(m, handler) ==
    IF HasText(m) /\ looks_like_payment_message(m.text)
    THEN IF handler = "handle_payout" THEN parse_payout_message(m.text)
         ELSE parse_payin_message(m.text)
    ELSE NoResult

\* The await a payment handler reaches first.
handler_await(m, result) ==
    IF ~HasText(m) THEN "done"
    ELSE IF ~looks_like_payment_message(m.text) THEN "done"
    ELSE IF ~result.success THEN "done"
    ELSE "create"

\* handler_reply, had the handlers not asked the classifier first: C4 tells
\* the two apart.
handler_reply_unfiltered(m, i, result) ==
    IF HasText(m) /\ ~result.success
    THEN <<Reply(i, result.error)>>
    ELSE << >>

\* What a payment handler sends before it: the diagnostic of a failed parse.
handler_reply(m, i, result) ==
    IF HasText(m) /\ looks_like_payment_message(m.text) /\ ~result.success
    THEN <<Reply(i, result.error)>>
    ELSE << >>

\* handle_ru_payin, handle_eng_payin and handle_payout up to the store
\* call: a message without text or one the classifier rejects is dropped;
\* a failed parse is answered with its diagnostic; a record goes on to the
\* store.
payment_start(m, handler) ==
    /\ Route(m) = handler
    /\ Deliver(m, handler_await(m, parsed'[Len(parsed')]),
               handler_parse(m, handler))
    /\ Logged(handler_reply(m, Len(parsed'), parsed'[Len(parsed')]))
    /\ UNCHANGED <<payments_in, payments_out, parse_vars, transport, callback>>

handle_ru_payin ==
    \E m \in NewMessages : payment_start(m, "handle_ru_payin")

handle_eng_payin ==
    \E m \in NewMessages : payment_start(m, "handle_eng_payin")

handle_payout ==
    \E m \in NewMessages : payment_start(m, "handle_payout")

\* payin_created, had create() replaced the record the client already had in
\* the conversation: C20 tells the two apart.
payin_created_replacing(i, row) ==
    /\ payments_in' =
          {x \in payments_in : x.chat_id # row.chat_id \/ x.client # row.client}
             \cup {row}
    /\ \E delivered \in BOOLEAN :
          Logged(<<[type |-> "append", msg |-> i, table |-> "payments_in",
                    row |-> row],
                   add_success_reaction(i, delivered)>>)
    /\ Goto(i, "done")
    /\ UNCHANGED <<messages, parsed, deleted, payments_out, parse_vars, transport, callback>>

\* payin_created, had the handler reacted before the store call: C25 tells
\* the two apart.
payin_created_reacting_first(i, row) ==
    /\ payments_in' = payments_in \cup {row}
    /\ \E delivered \in BOOLEAN :
          Logged(<<add_success_reaction(i, delivered),
                   [type |-> "append", msg |-> i, table |-> "payments_in",
                    row |-> row]>>)
    /\ Goto(i, "done")
    /\ UNCHANGED <<messages, parsed, deleted, payments_out, parse_vars, transport, callback>>

\* payin_created, had create() added the record twice: C27 tells the two
\* apart.
payin_created_twice(i, row) ==
    /\ payments_in' = payments_in \cup {row, [row EXCEPT !.id = row.id + 1]}
    /\ \E delivered \in BOOLEAN :
          Logged(<<[type |-> "append", msg |-> i, table |-> "payments_in",
                    row |-> row],
                   add_success_reaction(i, delivered)>>)
    /\ Goto(i, "done")
    /\ UNCHANGED <<messages, parsed, deleted, payments_out, parse_vars, transport, callback>>

\* The pay-in handlers from the store call on:
\* async with db.session_factory(): await PaymentInCRUD.create(...), then
\* the positive reaction.
payin_created(i, row) ==
    /\ payments_in' = payments_in \cup {row}
    /\ \E delivered \in BOOLEAN :
          Logged(<<[type |-> "append", msg |-> i, table |-> "payments_in",
                    row |-> row],
                   add_success_reaction(i, delivered)>>)
    /\ Goto(i, "done")
    /\ UNCHANGED <<messages, parsed, deleted, payments_out, parse_vars, transport, callback>>

payin_create ==
    \E i \in DOMAIN messages :
        /\ pc[i] = "create"
        /\ Route(messages[i]) \in {"handle_ru_payin", "handle_eng_payin"}
        /\ payin_created(i, PaymentIn(payments_in, parsed[i].data,
                                      IF Route(messages[i]) = "handle_ru_payin"
                                      THEN "ru" ELSE "eng",
                                      messages[i]))

\* The pay-out handler from the store call on.
payout_created(i, row) ==
    /\ payments_out' = payments_out \cup {row}
    /\ \E delivered \in BOOLEAN :
          Logged(<<[type |-> "append", msg |-> i, table |-> "payments_out",
                    row |-> row],
                   add_success_reaction(i, delivered)>>)
    /\ Goto(i, "done")
    /\ UNCHANGED <<messages, parsed, deleted, payments_in, parse_vars, transport, callback>>

payout_create ==
    \E i \in DOMAIN messages :
        /\ pc[i] = "create"
        /\ Route(messages[i]) = "handle_payout"
        /\ payout_created(i, PaymentOut(payments_out, parsed[i].data,
                                        messages[i]))

(***************************************************************************)
(* The bot                                                                 *)
(***************************************************************************)

Init ==
    /\ messages = << >>
    /\ pc = << >>
    /\ parsed = << >>
    /\ deleted = << >>
    /\ payments_in = {}
    /\ payments_out = {}
    /\ log = << >>
    /\ transport = [chat_ids |-> all_chat_ids, texts |-> MessageTexts,
                    limit |-> MaxMessages]
    /\ p_text = << >>
    /\ p_call = "none"
    /\ p_result = NoResult
    /\ callback = NoCallback

Next ==
    \/ cmd_start
    \/ handle_payin_cancel
    \/ handle_payout_cancel
    \/ payin_cancel_delete
    \/ payout_cancel_delete
    \/ handle_ru_payin
    \/ handle_eng_payin
    \/ handle_payout
    \/ payin_create
    \/ payout_create

Spec == Init /\ [][Next]_vars

(***************************************************************************)
(* The bot when all the messages of a run arrive in one conversation, any  *)
(* of the three, and are payments and cancellations                        *)
(***************************************************************************)

ConversationInit ==
    /\ messages = << >>
    /\ pc = << >>
    /\ parsed = << >>
    /\ deleted = << >>
    /\ payments_in = {}
    /\ payments_out = {}
    /\ log = << >>
    /\ transport \in {[chat_ids |-> {chat_id},
                        texts |-> ConversationTexts(chat_id),
                        limit |-> MaxConversationMessages] :
                          chat_id \in all_chat_ids}
    /\ p_text = << >>
    /\ p_call = "none"
    /\ p_result = NoResult
    /\ callback = NoCallback

ConversationNext ==
    \/ handle_payin_cancel
    \/ handle_payout_cancel
    \/ payin_cancel_delete
    \/ payout_cancel_delete
    \/ handle_ru_payin
    \/ handle_eng_payin
    \/ handle_payout
    \/ payin_create
    \/ payout_create

SpecConversation == ConversationInit /\ [][ConversationNext]_vars

(***************************************************************************)
(* Two conversations at a time: message identifiers count per conversation, *)
(* so a message of each has the same identifier                             *)
(***************************************************************************)

\* The most messages delivered in a run of two conversations.
MaxPairMessages == 3

PairInit ==
    /\ messages = << >>
    /\ pc = << >>
    /\ parsed = << >>
    /\ deleted = << >>
    /\ payments_in = {}
    /\ payments_out = {}
    /\ log = << >>
    /\ transport \in {[chat_ids |-> {eng_payin_chat_id, chat_id},
                        texts |-> {M_both, M_cancel},
                        limit |-> MaxPairMessages] :
                          chat_id \in {ru_payin_chat_id, payout_chat_id}}
    /\ p_text = << >>
    /\ p_call = "none"
    /\ p_result = NoResult
    /\ callback = NoCallback

SpecPair == PairInit /\ [][ConversationNext]_vars

(***************************************************************************)
(* The parsers and the classifier alone, on every text of Texts            *)
(***************************************************************************)

ParseInit ==
    /\ messages = << >>
    /\ pc = << >>
    /\ parsed = << >>
    /\ deleted = << >>
    /\ payments_in = {}
    /\ payments_out = {}
    /\ log = << >>
    /\ transport = [chat_ids |-> all_chat_ids, texts |-> MessageTexts,
                    limit |-> MaxMessages]
    /\ p_text \in Texts
    /\ p_call = "none"
    /\ p_result = NoResult
    /\ callback = NoCallback

call_looks_like_payment_message ==
    /\ p_call = "none"
    /\ p_call' = "looks_like_payment_message"
    /\ p_result' = [value |-> looks_like_payment_message(p_text)]
    /\ UNCHANGED <<p_text, bot_vars>>

call_parse_payin_message ==
    /\ p_call = "none"
    /\ p_call' = "parse_payin_message"
    /\ p_result' = parse_payin_message(p_text)
    /\ UNCHANGED <<p_text, bot_vars>>

call_parse_payout_message ==
    /\ p_call = "none"
    /\ p_call' = "parse_payout_message"
    /\ p_result' = parse_payout_message(p_text)
    /\ UNCHANGED <<p_text, bot_vars>>

ParseNext ==
    \/ call_looks_like_payment_message
    \/ call_parse_payin_message
    \/ call_parse_payout_message

SpecParse == ParseInit /\ [][ParseNext]_vars

(***************************************************************************)
(* The normalisers alone, on amount and date tokens                        *)
(***************************************************************************)

\* The longest amount token made of AmountChars.
MaxTokenLen == 4

\* Characters of an amount token: digits, the two separators, a sign and a
\* blank.
AmountChars == {"0", "7", ",", ".", "-", " "}

\* The amount tokens: every string of AmountChars up to MaxTokenLen, and
\* longer ones with thousands and decimal separators, letters and two
\* periods.
AmountTokens ==
    UNION {[1..n -> AmountChars] : n \in 0..MaxTokenLen}
      \cup { <<"1", ",", "2", "3", "4", ".", "5", "6">>,
              <<"1", "2", "3", "4", ",", "5", "6">>,
              <<"1", ".", "2", "3", "4", ",", "5", "6">>,
              <<"1", ",", "2", "3", "4", ",", "5", "6">>,
              <<"1", ".", "2", ".", "3">>,
              <<"a", "b", "c">>,
              <<"1", "5", "0", "0", "0", " ", "r", "u", "b">>,
              <<"1", " ", "0", "0", "0", ",", "5", "0">> }

\* The date tokens: a day, a month and a year in both orders, with each
\* separator in each place, as they are or followed by a blank or a letter.
DateTokens ==
    LET days == { <<"0", "1">>, <<"1">>, <<"2", "9">>, <<"3", "0">>,
                  <<"3", "1">>, <<"3", "2">>, <<" ", "1">> }
        months == { <<"0", "2">>, <<"2">>, <<"0", "4">>, <<"1", "2">>,
                    <<"1", "3">> }
        years == { <<"2", "0", "2", "6">>, <<"2", "0", "2", "4">>,
                   <<"2", "6">>, <<"6", "9">>, <<"0", "0", "0", "0">>,
                   <<"2", "0", "2">> }
        seps == { <<".">>, <<"-">>, <<"/">> }
        ends == { << >>, <<" ">>, <<"x">> }
    IN  UNION { {d \o a \o m \o b \o y \o e, y \o a \o m \o b \o d \o e} :
                  <<d, m, y, a, b, e>> \in
                      days \X months \X years \X seps \X seps \X ends }

NormaliseInit ==
    /\ messages = << >>
    /\ pc = << >>
    /\ parsed = << >>
    /\ deleted = << >>
    /\ payments_in = {}
    /\ payments_out = {}
    /\ log = << >>
    /\ transport = [chat_ids |-> all_chat_ids, texts |-> MessageTexts,
                    limit |-> MaxMessages]
    /\ p_text \in AmountTokens \cup DateTokens
    /\ p_call = "none"
    /\ p_result = NoResult
    /\ callback = NoCallback

call_parse_date ==
    /\ p_call = "none"
    /\ p_call' = "parse_date"
    /\ p_result' = parse_date(p_text)
    /\ UNCHANGED <<p_text, bot_vars>>

call_parse_amount ==
    /\ p_call = "none"
    /\ p_call' = "parse_amount"
    /\ p_result' = parse_amount(p_text)
    /\ UNCHANGED <<p_text, bot_vars>>

NormaliseNext ==
    \/ call_parse_date
    \/ call_parse_amount

SpecNormalise == NormaliseInit /\ [][NormaliseNext]_vars

(***************************************************************************)
(* The parsers called again and again, in any order, on a few texts        *)
(***************************************************************************)

\* The most calls of the parsers in a run.
MaxRuns == 3

\* Texts of every outcome: a payment of each schema, one of both, one with
\* the amount zero, and a text without labels.
ReparseTexts == {M_payin, M_payout, M_both, M_zero, M_cancel}

ReparseInit ==
    /\ messages = << >>
    /\ pc = << >>
    /\ parsed = << >>
    /\ deleted = << >>
    /\ payments_in = {}
    /\ payments_out = {}
    /\ log = << >>
    /\ transport = [chat_ids |-> all_chat_ids, texts |-> MessageTexts,
                    limit |-> MaxMessages]
    /\ p_text = << >>
    /\ p_call = "none"
    /\ p_result = NoResult
    /\ callback = NoCallback

\* One more call: the log keeps every call with its text and its outcome,
\* p_result the outcome of the last one.
Ran(f, text, result) ==
    /\ Len(log) < MaxRuns
    /\ p_text' = text
    /\ p_call' = f
    /\ p_result' = result
    /\ log' = Append(log, [type |-> "call", f |-> f, text |-> text,
                           result |-> result])
    /\ UNCHANGED <<messages, pc, parsed, deleted, payments_in, payments_out,
                   transport, callback>>

\* rerun_parse_payin_message, had the parser kept the outcome of the call
\* before and given it again for a text of the same length: C22 tells the
\* two apart.
rerun_parse_payin_message_remembering ==
    \E text \in ReparseTexts :
        Ran("parse_payin_message", text,
            IF p_call # "none" /\ Len(p_text) = Len(text)
            THEN p_result ELSE parse_payin_message(text))

rerun_parse_payin_message ==
    \E text \in ReparseTexts :
        Ran("parse_payin_message", text, parse_payin_message(text))

rerun_parse_payout_message ==
    \E text \in ReparseTexts :
        Ran("parse_payout_message", text, parse_payout_message(text))

ReparseNext ==
    \/ rerun_parse_payin_message
    \/ rerun_parse_payout_message

SpecReparse == ReparseInit /\ [][ReparseNext]_vars

(***************************************************************************)
(* The queries of the store                                                *)
(***************************************************************************)

\* date.toordinal(): the days from 1 January of the year 1.
toordinal(d) ==
    LET RECURSIVE DaysBeforeMonth(_)
        DaysBeforeMonth(m) ==
            IF m = 1 THEN 0
            ELSE DaysInMonth(d.y, m - 1) + DaysBeforeMonth(m - 1)
    IN  (d.y - 1) * 365 + (d.y - 1) \div 4 - (d.y - 1) \div 100
          + (d.y - 1) \div 400 + DaysBeforeMonth(d.m) + d.d

\* .order_by(date.desc(), created_at.desc()).  created_at is the clock of
\* the store at the insert: of two rows the one with the larger id was
\* created later (the rows of the model are created in different seconds).
RECURSIVE order_by(_)
order_by(rows) ==
    IF rows = {} THEN << >>
    ELSE LET first == CHOOSE r \in rows : \A x \in rows \ {r} :
                         \/ toordinal(r.date) > toordinal(x.date)
                         \/ r.date = x.date /\ r.id > x.id
         IN  <<first>> \o order_by(rows \ {first})

\* get_last: order_by(created_at.desc()).limit(1), scalar_one_or_none()
get_last(table) ==
    IF table = {} THEN None
    ELSE CHOOSE r \in table : \A x \in table : x.id <= r.id

\* The sum of two amounts held as mant / 10^exp.
Plus(a, b) ==
    LET e == IF a.exp > b.exp THEN a.exp ELSE b.exp
        RECURSIVE Shortest(_, _)
        Shortest(m, k) == IF k > 0 /\ m % 10 = 0 THEN Shortest(m \div 10, k - 1)
                          ELSE [mant |-> m, exp |-> k]
    IN  Shortest(a.mant * Pow10(e - a.exp) + b.mant * Pow10(e - b.exp), e)

\* get_total_amount: select(func.coalesce(func.sum(amount), 0))
RECURSIVE get_total_amount(_)
get_total_amount(table) ==
    IF table = {} THEN [mant |-> 0, exp |-> 0]
    ELSE LET r == CHOOSE x \in table : TRUE
         IN  Plus(r.amount, get_total_amount(table \ {r}))

\* get_count: select(func.count(id))
get_count(table) == Cardinality(table)

\* get_last_7_days: week_ago = date.today() - timedelta(days=7),
\* where(date >= week_ago)
get_last_7_days(table, today) ==
    order_by({r \in table : toordinal(r.date) >= toordinal(today) - 7})

\* get_current_month: start_date = date(today.year, today.month, 1),
\* where(date >= start_date), where(date <= today)
get_current_month(table, today) ==
    order_by({r \in table :
                /\ toordinal(r.date) >= toordinal([today EXCEPT !.d = 1])
                /\ toordinal(r.date) <= toordinal(today)})

(***************************************************************************)
(* The store's period queries alone, on the rows a store can hold          *)
(***************************************************************************)

\* The days a query runs on: the first of February 2026, a week and eight
\* days later, and the first of March.
Days ==
    {[y |-> 2026, m |-> 2, d |-> 1], [y |-> 2026, m |-> 2, d |-> 8],
     [y |-> 2026, m |-> 2, d |-> 9], [y |-> 2026, m |-> 3, d |-> 1]}

\* Rows of payments_in as create() leaves them: of 31 January 2026, of 1
\* February and two of 8 February.
StoredIn ==
    {PaymentIn({[id |-> k - 1]},
               [date |-> IF k = 1 THEN [y |-> 2026, m |-> 1, d |-> 31]
                         ELSE IF k = 2 THEN [y |-> 2026, m |-> 2, d |-> 1]
                         ELSE [y |-> 2026, m |-> 2, d |-> 8],
                amount |-> [mant |-> 5, exp |-> 0],
                client |-> <<"A">>, teacher |-> <<"B">>],
               "ru", [message_id |-> k, chat_id |-> ru_payin_chat_id]) :
       k \in 1..4}

\* Rows of payments_out: of 1 February 2026 and of 8 February.
StoredOut ==
    {PaymentOut({[id |-> k - 1]},
                [date |-> [y |-> 2026, m |-> 2, d |-> IF k = 1 THEN 1 ELSE 8],
                 amount |-> [mant |-> 25, exp |-> 1],
                 category |-> <<"C">>, recipient |-> <<"B">>],
                [message_id |-> k, chat_id |-> payout_chat_id]) :
       k \in 1..2}

PeriodInit ==
    /\ messages = << >>
    /\ pc = << >>
    /\ parsed = << >>
    /\ deleted = << >>
    /\ payments_in \in SUBSET StoredIn
    /\ payments_out \in SUBSET StoredOut
    /\ log = << >>
    /\ transport = [chat_ids |-> all_chat_ids, texts |-> MessageTexts,
                    limit |-> MaxMessages]
    /\ p_text = << >>
    /\ p_call = "none"
    /\ p_result = NoResult
    /\ callback \in {[NoCallback EXCEPT !.today = today] : today \in Days}

\* PaymentInCRUD.get_last_7_days and PaymentOutCRUD.get_last_7_days on
\* the day callback.today.
call_get_last_7_days ==
    /\ p_call = "none"
    /\ \E crud \in {"PaymentInCRUD", "PaymentOutCRUD"} :
          /\ p_call' = "get_last_7_days"
          /\ p_text' = <<crud>>
          /\ p_result' = get_last_7_days(IF crud = "PaymentInCRUD" THEN payments_in
                                         ELSE payments_out, callback.today)
    /\ UNCHANGED bot_vars

\* PaymentInCRUD.get_current_month and PaymentOutCRUD.get_current_month.
call_get_current_month ==
    /\ p_call = "none"
    /\ \E crud \in {"PaymentInCRUD", "PaymentOutCRUD"} :
          /\ p_call' = "get_current_month"
          /\ p_text' = <<crud>>
          /\ p_result' = get_current_month(IF crud = "PaymentInCRUD" THEN payments_in
                                           ELSE payments_out, callback.today)
    /\ UNCHANGED bot_vars

PeriodNext ==
    \/ call_get_last_7_days
    \/ call_get_current_month

SpecPeriod == PeriodInit /\ [][PeriodNext]_vars

(***************************************************************************)
(* The administrators' menu, while payments arrive in a pay-in and in the  *)
(* pay-out conversation.  A callback handler gives way to the other        *)
(* handlers at each of its queries.                                        *)
(***************************************************************************)

\* The most messages delivered in a run with the menu.
MaxAdminMessages == 1

\* settings.admin_ids, and callback.from_user: an administrator, another
\* user, or None.
admin_ids == {201}

FromUsers == {[id |-> 201], [id |-> 202], None}

\* is_admin, had it let every user in: C30 tells the two apart.
is_admin_for_all(user_id) == user_id \in admin_ids \cup {202}

is_admin(user_id) == user_id \in admin_ids

\* The handlers of the callback queries, one for each button.
CallbackHandlers ==
    {"callback_back_to_menu", "callback_debit_credit", "callback_balance",
     "callback_last_incoming", "callback_last_outgoing",
     "callback_reports_menu", "callback_report_7_days",
     "callback_report_current_month", "callback_report_previous_month"}

\* The queries a handler awaits, in its order.
AwaitedQueries(handler) ==
    IF handler = "callback_debit_credit"
    THEN <<<<"PaymentInCRUD", "get_total_amount">>,
           <<"PaymentOutCRUD", "get_total_amount">>,
           <<"PaymentInCRUD", "get_count">>,
           <<"PaymentOutCRUD", "get_count">>>>
    ELSE IF handler = "callback_balance"
    THEN <<<<"PaymentInCRUD", "get_total_amount">>,
           <<"PaymentOutCRUD", "get_total_amount">>>>
    ELSE IF handler = "callback_last_incoming"
    THEN <<<<"PaymentInCRUD", "get_last">>>>
    ELSE IF handler = "callback_last_outgoing"
    THEN <<<<"PaymentOutCRUD", "get_last">>>>
    ELSE IF handler = "callback_report_7_days"
    THEN <<<<"PaymentInCRUD", "get_last_7_days">>,
           <<"PaymentOutCRUD", "get_last_7_days">>>>
    ELSE << >>

\* await session.execute(...) of one query.
execute(query, today) ==
    LET table == IF query[1] = "PaymentInCRUD" THEN payments_in ELSE payments_out
    IN  IF query[2] = "get_total_amount" THEN [amount |-> get_total_amount(table)]
        ELSE IF query[2] = "get_count" THEN [count |-> get_count(table)]
        ELSE IF query[2] = "get_last" THEN [payment |-> get_last(table)]
        ELSE [payments |-> get_last_7_days(table, today)]

\* total_incoming - total_outgoing
balance(total_incoming, total_outgoing) ==
    Plus(total_incoming, [total_outgoing EXCEPT !.mant = 0 - @])

\* What a handler sends once it has read: the text of the report, its
\* amounts in hundredths as {:,.2f} shows them, or the spreadsheet of the
\* two lists.
report(handler, reads) ==
    IF handler = "callback_debit_credit"
    THEN [class |-> "Debit/Credit",
          total_incoming |-> Hundredths(reads[1].amount),
          incoming_count |-> reads[3].count,
          total_outgoing |-> Hundredths(reads[2].amount),
          outgoing_count |-> reads[4].count,
          balance |-> Hundredths(balance(reads[1].amount, reads[2].amount))]
    ELSE IF handler = "callback_balance"
    THEN [class |-> "Current Balance",
          total_incoming |-> Hundredths(reads[1].amount),
          total_outgoing |-> Hundredths(reads[2].amount),
          balance |-> Hundredths(balance(reads[1].amount, reads[2].amount))]
    ELSE IF handler = "callback_last_incoming"
    THEN [class |-> "Last Incoming Payment", payment |-> reads[1].payment]
    ELSE IF handler = "callback_last_outgoing"
    THEN [class |-> "Last Outgoing Payment", payment |-> reads[1].payment]
    ELSE [class |-> "Report for the last 7 days",
          incoming |-> reads[1].payments, outgoing |-> reads[2].payments]

\* A callback query arrives, the one of the run, and its handler runs to its
\* first query.
\* Someone who is no administrator gets the alert (nothing from the button
\* back to the menu).  The two menus are sent without a query.  The
\* handlers of the two month reports answer and then call
\* ReportsService.get_current_month_incoming and
\* get_previous_month_incoming, which ReportsService does not have: they end
\* with AttributeError.
callback_query ==
    /\ callback = NoCallback
    /\ \E handler \in CallbackHandlers, from_user \in FromUsers :
       \E today \in IF handler = "callback_report_7_days" THEN Days ELSE {None} :
          callback' =
             IF from_user = None \/ ~is_admin(from_user.id)
             THEN [handler |-> handler, from_user |-> from_user, pc |-> "done",
                   today |-> None, reads |-> << >>,
                   sent |-> IF handler = "callback_back_to_menu" THEN << >>
                            ELSE <<[class |-> "Access denied"]>>]
             ELSE IF handler \in {"callback_report_current_month",
                                  "callback_report_previous_month"}
             THEN [handler |-> handler, from_user |-> from_user, pc |-> "failed",
                   today |-> None, reads |-> << >>,
                   sent |-> <<[class |-> "Generating report..."]>>]
             ELSE IF handler \in {"callback_back_to_menu", "callback_reports_menu"}
             THEN [handler |-> handler, from_user |-> from_user, pc |-> "done",
                   today |-> None, reads |-> << >>,
                   sent |-> <<[class |-> IF handler = "callback_back_to_menu"
                                         THEN "Main Menu" ELSE "Reports"]>>]
             ELSE [handler |-> handler, from_user |-> from_user, pc |-> "query",
                   today |-> today, reads |-> << >>,
                   sent |-> IF handler = "callback_report_7_days"
                            THEN <<[class |-> "Generating report..."]>>
                            ELSE << >>]
    /\ UNCHANGED <<messages, pc, parsed, deleted, payments_in, payments_out,
                   log, transport, parse_vars>>

\* The handler's next query; after the last one it sends the report.
callback_reads ==
    /\ callback.pc = "query"
    /\ LET queries == AwaitedQueries(callback.handler)
           reads == Append(callback.reads,
                           execute(queries[Len(callback.reads) + 1],
                                   callback.today))
       IN  callback' =
              IF Len(reads) < Len(queries)
              THEN [callback EXCEPT !.reads = reads]
              ELSE [callback EXCEPT !.reads = reads, !.pc = "done",
                                    !.sent = Append(@, report(callback.handler,
                                                              reads))]
    /\ UNCHANGED <<messages, pc, parsed, deleted, payments_in, payments_out,
                   log, transport, parse_vars>>

AdminInit ==
    /\ messages = << >>
    /\ pc = << >>
    /\ parsed = << >>
    /\ deleted = << >>
    /\ payments_in = {}
    /\ payments_out = {}
    /\ log = << >>
    /\ transport = [chat_ids |-> {eng_payin_chat_id, payout_chat_id},
                    texts |-> {M_both, M_start},
                    limit |-> MaxAdminMessages]
    /\ p_text = << >>
    /\ p_call = "none"
    /\ p_result = NoResult
    /\ callback = NoCallback

AdminNext ==
    \/ cmd_start
    \/ handle_eng_payin
    \/ handle_payout
    \/ payin_create
    \/ payout_create
    \/ callback_query
    \/ callback_reads

SpecAdmin == AdminInit /\ [][AdminNext]_vars

(***************************************************************************)
(* What the properties speak of                                            *)
(***************************************************************************)

\* text.split("\n")
RECURSIVE Lines(_)
Lines(t) ==
    IF \A i \in 1..Len(t) : t[i] # NL THEN <<t>>
    ELSE LET n == CHOOSE i \in 1..Len(t) :
                      t[i] = NL /\ \A j \in 1..(i - 1) : t[j] # NL
         IN  <<SubSeq(t, 1, n - 1)>> \o Lines(SubSeq(t, n + 1, Len(t)))

\* Where a label occurs in a text: the indexes after one of its words
\* followed by ':' or '-'.
AfterLabel(alts, t) ==
    {LabelSepAt(t, i, alts[k]) : i \in 1..Len(t), k \in 1..Len(alts)} \ {0}

LabelOccurs(alts, t) == AfterLabel(alts, t) # {}

\* The rest of the line from index q on.
RestOfLine(t, q) ==
    IF q > Len(t) \/ t[q] = NL THEN << >> ELSE SubSeq(t, q, LineEnd(t, q))

\* What stands on a label's own line after the separator, trimmed, for each
\* occurrence of the label.
SameLineValues(alts, t) == {Strip(RestOfLine(t, q)) : q \in AfterLabel(alts, t)}

\* What is typed after a label: for each line that begins with one of the
\* label's words and a separator, what follows the separator, trimmed.
TypedValues(alts, t) ==
    LET ls == Lines(t)
    IN  {Strip(SubSeq(ls[p[1]], LabelSepAt(ls[p[1]], 1, alts[p[2]]),
                      Len(ls[p[1]]))) :
            p \in {x \in (1..Len(ls)) \X (1..Len(alts)) :
                      LabelSepAt(ls[x[1]], 1, alts[x[2]]) # 0}}

\* A label has a value in a text: after one of its occurrences something
\* other than line breaks follows.
HasValue(alts, t) ==
    \E q \in AfterLabel(alts, t) : \E j \in q..Len(t) : t[j] # NL

\* The words of the six labels; "to" is a word of teacher and of recipient.
LabelWords ==
    << <<L_data, L_date>>,
       <<L_summa, L_amount, L_sum>>,
       <<L_klient, L_client>>,
       <<L_prepodavatel, L_teacher>>,
       <<L_kategoriya, L_category>>,
       <<L_komu, L_recipient>> >>

\* The number of distinct labels of a text: an occurrence of "to" is one
\* label, teacher or recipient.
DistinctLabels(t) ==
    LET named == {k \in 1..Len(LabelWords) : LabelOccurs(LabelWords[k], t)}
    IN  Cardinality(named)
          + (IF LabelOccurs(<<L_to>>, t) /\ ~({4, 6} \subseteq named)
             THEN 1 ELSE 0)

Parsers == {"parse_payin_message", "parse_payout_message"}

PatternsOf(f) ==
    IF f = "parse_payin_message" THEN payin_patterns ELSE payout_patterns

\* The two name fields of a record.
NamesOf(f, data) ==
    IF f = "parse_payin_message" THEN <<data.client, data.teacher>>
    ELSE <<data.category, data.recipient>>

\* The field names of the patterns ks, in that order.
FieldNames(patterns, ks) == [j \in 1..Len(ks) |-> patterns[ks[j]].field_name]

\* The patterns whose label is absent from a text, in schema order.
Absent(patterns, t) ==
    SelectSeq([k \in 1..Len(patterns) |-> k],
              LAMBDA k : ~LabelOccurs(patterns[k].alts, t))

\* The patterns whose label has no value in a text, in schema order.
WithoutValue(patterns, t) ==
    SelectSeq([k \in 1..Len(patterns) |-> k],
              LAMBDA k : ~HasValue(patterns[k].alts, t))

MissingFields(names) ==
    ParseFailure([class |-> "Missing fields", fields |-> names])

\* A cancellation request: a reply whose trimmed, case-folded text is "cancel".
IsCancelRequest(m) == IsReply(m) /\ HasText(m) /\ is_cancel_command(m.text)

\* The classifier accepts the message.
Accepted(m) == HasText(m) /\ looks_like_payment_message(m.text)

\* The parse of a message by the schema of its conversation.
SchemaParse(m) ==
    IF m.chat_id = payout_chat_id THEN parse_payout_message(m.text)
    ELSE parse_payin_message(m.text)

\* The places of the log where the handler of message i did something.
EventsOf(i, types) ==
    {n \in DOMAIN log : log[n].msg = i /\ log[n].type \in types}

(***************************************************************************)
(* Properties                                                              *)
(***************************************************************************)

\* C1: looks_like_payment_message(text) is true if and only if at least two
\* distinct labels occur in the text followed by ':' or '-'; a text whose
\* only label is "to" has one.
C1_TrueIffTwoDistinctLabels ==
    p_call = "looks_like_payment_message" =>
        p_result.value = (DistinctLabels(p_text) >= 2)

\* C2: every handled text message that is not a cancellation request, that
\* the classifier accepts and that parses has exactly one append of its
\* record in the log, followed by a positive reaction on that message,
\* whether it is a reply or not.
C2_ParsedMessageIsStoredOnce ==
    \A i \in DOMAIN messages :
        ( /\ pc[i] = "done"
          /\ ~IsCancelRequest(messages[i])
          /\ Accepted(messages[i])
          /\ SchemaParse(messages[i]).success )
        => /\ Cardinality(EventsOf(i, {"append"})) = 1
           /\ \E a \in EventsOf(i, {"append"}) : \E b \in EventsOf(i, {"react"}) :
                 /\ a < b
                 /\ log[a].row.message_id = messages[i].message_id
                 /\ log[a].row.chat_id = messages[i].chat_id
                 /\ log[b].emoji = "thumbs up"
                 /\ log[b].message_id = messages[i].message_id

\* C3: a handled message that the classifier accepts and whose parse fails
\* has exactly one reply, the parser's diagnostic, no append and no
\* reaction.
C3_FailedParseIsAnswered ==
    \A i \in DOMAIN messages :
        ( /\ pc[i] = "done"
          /\ Accepted(messages[i])
          /\ ~SchemaParse(messages[i]).success )
        => /\ Cardinality(EventsOf(i, {"reply"})) = 1
           /\ \A n \in EventsOf(i, {"reply"}) :
                 log[n].body = SchemaParse(messages[i]).error
           /\ EventsOf(i, {"append", "delete", "react"}) = {}

\* C4, as stated: a message that the classifier rejects, or that has no
\* text, has no reply, no reaction and no change of a store.
C4_RejectedMessageIsIgnored ==
    \A i \in DOMAIN messages :
        ~Accepted(messages[i])
        => EventsOf(i, {"reply", "react", "append", "delete"}) = {}

\* C4, amended: a message that is neither a cancellation request nor a
\* /start command and that the classifier rejects, or that has no text, has
\* no reply, no reaction, no other answer and no change of a store.
C4_RejectedOtherMessageIsIgnored ==
    \A i \in DOMAIN messages :
        ( /\ ~Accepted(messages[i])
          /\ ~IsCancelRequest(messages[i])
          /\ ~IsStartCommand(messages[i].text) )
        => EventsOf(i, {"reply", "react", "append", "delete", "answer"}) = {}

\* A text that the classifier rejects and that is no cancellation request
\* was handled, while another message got its diagnostic.
C4_Witness ==
    /\ \E i \in DOMAIN messages :
          /\ pc[i] = "done"
          /\ messages[i].text = M_cancel
          /\ ~IsReply(messages[i])
          /\ ~Accepted(messages[i])
    /\ \E i \in DOMAIN messages :
          /\ Accepted(messages[i])
          /\ EventsOf(i, {"reply"}) # {}

\* C5: the parsers report one class of problem, chosen in the order missing
\* fields, invalid date, invalid amount; with none of them they succeed.
C5_OneProblemByPriority ==
    p_call \in Parsers =>
        LET patterns == PatternsOf(p_call)
            values == stripped_groups(Lower(p_text),
                                      search_all(patterns, Lower(p_text)))
        IN  IF WithoutValue(patterns, p_text) # << >>
            THEN /\ ~p_result.success
                 /\ p_result.error.class = "Missing fields"
            ELSE IF ~Truthy(parse_date(values[1]))
            THEN p_result = ParseFailure([class |-> "Invalid date format",
                                          raw |-> values[1]])
            ELSE IF ~Truthy(parse_amount(values[2]))
            THEN p_result = ParseFailure([class |-> "Invalid amount format",
                                          raw |-> values[2]])
            ELSE p_result.success

\* A text with all four labels, a date and an amount that cannot be
\* normalised, got the invalid-date diagnostic only.
C5_Witness ==
    /\ p_call = "parse_payin_message"
    /\ p_text = JoinLines(<<S_date_bad, S_amount_bad, S_client_ok, S_teacher_ok>>)
    /\ parse_amount(<<"x">>) = None
    /\ ~p_result.success
    /\ p_result.error.class = "Invalid date format"

C7_SuccessHasNoEmptyField ==
    p_call \in Parsers /\ p_result.success =>
        /\ \A k \in 1..2 : NamesOf(p_call, p_result.data)[k] # << >>
        /\ \A k \in 1..Len(PatternsOf(p_call)) :
              << >> \notin SameLineValues(PatternsOf(p_call)[k].alts, p_text)

\* C8: an incoming text with one line for each of the four labels, a date
\* and an amount that can be normalised and two names parses to exactly the
\* typed values.
C8_RoundTrip ==
    p_call = "parse_payin_message" =>
        \A d \in TypedValues(payin_patterns[1].alts, p_text) :
        \A a \in TypedValues(payin_patterns[2].alts, p_text) :
        \A c \in TypedValues(payin_patterns[3].alts, p_text) :
        \A t \in TypedValues(payin_patterns[4].alts, p_text) :
            ( /\ Truthy(parse_date(d))
              /\ Truthy(parse_amount(a))
              /\ c # << >>
              /\ t # << >> )
            => p_result = ParseSuccess([date |-> parse_date(d),
                                        amount |-> parse_amount(a),
                                        client |-> c, teacher |-> t])

\* C9: an outgoing text with a valid date, amount and category whose
\* recipient line begins with "recipient", "to" or the Russian word parses
\* with that line's value as recipient.
C9_RecipientUnderEachLabel ==
    p_call = "parse_payout_message" =>
        \A d \in TypedValues(payout_patterns[1].alts, p_text) :
        \A a \in TypedValues(payout_patterns[2].alts, p_text) :
        \A c \in TypedValues(payout_patterns[3].alts, p_text) :
        \A r \in TypedValues(<<L_komu, L_recipient, L_to>>, p_text) :
            ( /\ Truthy(parse_date(d))
              /\ Truthy(parse_amount(a))
              /\ c # << >>
              /\ r # << >> )
            => /\ p_result.success
               /\ p_result.data.recipient = r

\* C10: the value of a name field of a record is the rest of a line on
\* which the field's label occurs.
C10_ValueIsTheRestOfTheLine ==
    p_call \in Parsers /\ p_result.success =>
        \A k \in 1..2 :
            NamesOf(p_call, p_result.data)[k]
                \in SameLineValues(PatternsOf(p_call)[k + 2].alts, p_text)

(***************************************************************************)
(* Cancellation, the store and the normalisers                             *)
(***************************************************************************)

\* The table the handlers of a conversation work on.
TableOf(chat_id) ==
    IF chat_id = payout_chat_id THEN payments_out ELSE payments_in

\* The rows stored for the message that message i replies to.
TargetRows(i) ==
    {r \in TableOf(messages[i].chat_id) :
        r.message_id = messages[i].reply_to /\ r.chat_id = messages[i].chat_id}

\* The step in which the lookup-and-delete of cancellation request i runs.
Lookup(i) == pc[i] = "delete" /\ pc'[i] = "done"

\* What a step adds to the log.
NewEvents == SubSeq(log', Len(log) + 1, Len(log'))

\* The confirmation of the deletion of row r names its amount and names.
Confirms(body, r, chat_id) ==
    /\ body.class = "Transaction cancelled"
    /\ body.amount = Format2f(r.amount)
    /\ IF chat_id = payout_chat_id
       THEN body.category = r.category /\ body.recipient = r.recipient
       ELSE body.client = r.client /\ body.teacher = r.teacher

\* C11: when the lookup-and-delete of a cancellation request finds a record
\* of the message replied to, the record leaves the store, a negative
\* reaction is put on the message replied to, and the request is answered
\* with the confirmation of the record's amount and names.
C11_CancelDeletesAndConfirms ==
    [][\A i \in DOMAIN messages :
          Lookup(i) /\ TargetRows(i) # {} =>
              \E r \in TargetRows(i) :
                  /\ TableOf(messages[i].chat_id)'
                        = TableOf(messages[i].chat_id) \ {r}
                  /\ Len(NewEvents) = 3
                  /\ NewEvents[1].type = "delete"
                  /\ NewEvents[1].row = r
                  /\ NewEvents[2].type = "react"
                  /\ NewEvents[2].emoji = "thumbs down"
                  /\ NewEvents[2].message_id = messages[i].reply_to
                  /\ NewEvents[2].chat_id = messages[i].chat_id
                  /\ NewEvents[3].type = "reply"
                  /\ NewEvents[3].msg = i
                  /\ Confirms(NewEvents[3].body, r, messages[i].chat_id)
      ]_vars

\* A record was deleted, the reaction added and the confirmation sent.
C11_Witness ==
    \E n \in 1..(Len(log) - 2) :
        /\ log[n].type = "delete"
        /\ log[n + 1].type = "react"
        /\ log[n + 2].type = "reply"
        /\ log[n + 2].body.class = "Transaction cancelled"
        /\ TargetRows(log[n].msg) = {}

\* The place of the reply that cancellation request i got.
ReplyTo(i) == CHOOSE n \in DOMAIN log : log[n].type = "reply" /\ log[n].msg = i

\* The cancellation requests that were answered.
AnsweredCancels ==
    {i \in DOMAIN messages : IsCancelRequest(messages[i]) /\ pc[i] = "done"}

\* C12: a cancellation request that got the not-found reply added no
\* reaction and deleted nothing, and of two cancellation requests for one
\* message that were answered one after the other the second got not-found.
C12_SecondCancelGetsNotFound ==
    \A j \in AnsweredCancels :
        /\ log[ReplyTo(j)].body.class = "Transaction not found in database"
              => EventsOf(j, {"react", "delete", "append"}) = {}
        /\ \A i \in AnsweredCancels :
              ( /\ messages[i].chat_id = messages[j].chat_id
                /\ messages[i].reply_to = messages[j].reply_to
                /\ ReplyTo(i) < ReplyTo(j) )
              => log[ReplyTo(j)].body.class = "Transaction not found in database"

\* A row left one of the stores in this step.
RowDeleted ==
    \/ payments_in \ payments_in' # {}
    \/ payments_out \ payments_out' # {}

\* C13: a row leaves a store only in the lookup-and-delete of a message that
\* is a reply and whose trimmed, lower-cased text is "cancel".
C13_OnlyCancelRequestsDelete ==
    [][RowDeleted =>
          \E i \in DOMAIN messages :
              /\ Lookup(i)
              /\ messages[i].reply_to # 0
              /\ Lower(Strip(messages[i].text)) = <<"c", "a", "n", "c", "e", "l">>
      ]_vars

\* A reply with another text, or a "cancel" that is no reply, was handled,
\* and a record was appended and deleted.
C13_Witness ==
    /\ \E i \in DOMAIN messages :
          /\ pc[i] = "done"
          /\ HasText(messages[i])
          /\ \/ IsReply(messages[i]) /\ ~is_cancel_command(messages[i].text)
             \/ ~IsReply(messages[i]) /\ is_cancel_command(messages[i].text)
    /\ \E n \in DOMAIN log : log[n].type = "append"
    /\ \E n \in DOMAIN log : log[n].type = "delete"

\* C14: no cancellation request got not-found while the record of the
\* message it replies to is in the store.
C14_NotFoundMeansNoRecord ==
    \A i \in AnsweredCancels :
        log[ReplyTo(i)].body.class = "Transaction not found in database"
            => TargetRows(i) = {}

\* C16: every record in a store has an amount greater than zero, and a
\* payment with the amount zero was answered with the invalid-amount
\* diagnostic and not stored.
C16_StoredAmountsArePositive ==
    /\ \A r \in payments_in : r.amount.mant > 0
    /\ \A r \in payments_out : r.amount.mant > 0
    /\ \A n \in DOMAIN log : log[n].type = "append" => log[n].row.amount.mant > 0
    /\ \A i \in DOMAIN messages :
          pc[i] = "done" /\ ~IsReply(messages[i]) /\ messages[i].text = M_zero
          => /\ EventsOf(i, {"append", "react"}) = {}
             /\ \E n \in EventsOf(i, {"reply"}) :
                   log[n].body = [class |-> "Invalid amount format",
                                  raw |-> <<"0">>]

\* A payment with the amount zero was refused while a record is stored.
C16_Witness ==
    /\ \E i \in DOMAIN messages :
          /\ pc[i] = "done"
          /\ ~IsReply(messages[i])
          /\ messages[i].text = M_zero
          /\ EventsOf(i, {"reply"}) # {}
    /\ payments_in \cup payments_out # {}

\* The rows of both tables with the message and the conversation of row r.
StoredLike(r) ==
    {x \in TableOf(r.chat_id) :
        x.message_id = r.message_id /\ x.chat_id = r.chat_id}

\* C18: a reaction that was not delivered ended no handler early and undid
\* nothing: after a failed positive reaction the handler is done and the
\* record is stored until a cancellation deletes it; after a failed negative
\* reaction the record is deleted, the confirmation follows and the handler
\* is done.
C18_FailedReactionBlocksNothing ==
    \A n \in DOMAIN log :
        log[n].type = "react" /\ ~log[n].delivered =>
            /\ pc[log[n].msg] = "done"
            /\ n > 1
            /\ log[n - 1].msg = log[n].msg
            /\ IF log[n].emoji = "thumbs up"
               THEN /\ log[n - 1].type = "append"
                    /\ \/ log[n - 1].row \in TableOf(log[n].chat_id)
                       \/ \E k \in (n + 1)..Len(log) :
                             log[k].type = "delete" /\ log[k].row = log[n - 1].row
               ELSE /\ log[n - 1].type = "delete"
                    /\ StoredLike(log[n - 1].row) = {}
                    /\ n < Len(log)
                    /\ log[n + 1].type = "reply"
                    /\ log[n + 1].msg = log[n].msg
                    /\ Confirms(log[n + 1].body, log[n - 1].row, log[n].chat_id)

\* A positive and a negative reaction failed.
C18_Witness ==
    /\ \E n \in DOMAIN log :
          log[n].type = "react" /\ ~log[n].delivered /\ log[n].emoji = "thumbs up"
    /\ \E n \in DOMAIN log :
          log[n].type = "react" /\ ~log[n].delivered /\ log[n].emoji = "thumbs down"

\* The fields of a row of payments_in and of payments_out.
PaymentInFields ==
    {"id", "date", "amount", "client", "teacher", "chat_type",
     "message_id", "chat_id"}

PaymentOutFields ==
    {"id", "date", "amount", "category", "recipient", "message_id", "chat_id"}

\* Whether the schema of a conversation parses a text, and what a text gives
\* under 'to', for the texts of Spec.
SchemaParses ==
    [chat_id \in all_chat_ids |->
        [t \in MessageTexts |->
            SchemaParse([chat_id |-> chat_id, text |-> t]).success]]

UnderTo == [t \in MessageTexts |-> SameLineValues(<<L_to>>, t)]

\* C19: the conversation a message arrives in, never its content, fixes the
\* schema: a record of the RU or ENG pay-in conversation is an incoming
\* payment tagged "ru" or "eng" whose teacher is what the message gives
\* under 'to'; a record of the pay-out conversation is an outgoing payment
\* whose recipient is what the message gives under 'to'; and a message is
\* stored exactly when the schema of its conversation parses it.
C19_ConversationFixesTheSchema ==
    /\ \A n \in DOMAIN log :
          log[n].type = "append" =>
             LET m == messages[log[n].msg]
                 r == log[n].row
             IN  IF m.chat_id = payout_chat_id
                 THEN /\ log[n].table = "payments_out"
                      /\ DOMAIN r = PaymentOutFields
                      /\ r.recipient \in UnderTo[m.text]
                 ELSE /\ log[n].table = "payments_in"
                      /\ DOMAIN r = PaymentInFields
                      /\ r.chat_type =
                            (IF m.chat_id = ru_payin_chat_id THEN "ru" ELSE "eng")
                      /\ r.teacher \in UnderTo[m.text]
    /\ \A i \in DOMAIN messages :
          pc[i] = "done" /\ ~IsReply(messages[i]) /\ Accepted(messages[i])
          /\ ~IsStartCommand(messages[i].text)
          => (EventsOf(i, {"append"}) # {}
                <=> SchemaParses[messages[i].chat_id][messages[i].text])
    /\ \A r \in payments_in : DOMAIN r = PaymentInFields
    /\ \A r \in payments_out : DOMAIN r = PaymentOutFields

\* The same text, with 'to' and no client, was stored in the pay-out
\* conversation and refused in a pay-in conversation.
C19_Witness ==
    \E i, j \in DOMAIN messages :
        /\ messages[i].text = messages[j].text
        /\ messages[i].chat_id = payout_chat_id
        /\ messages[j].chat_id # payout_chat_id
        /\ EventsOf(i, {"append"}) # {}
        /\ EventsOf(j, {"reply"}) # {}
        /\ EventsOf(j, {"append"}) = {}

\* A step changes a table by one append of a new row or by one delete of a
\* stored row, and the log names it.
OneAppendOrDelete(old, new, name) ==
    old # new =>
        \/ \E r \in new \ old :
              /\ new = old \cup {r}
              /\ \A x \in old : x.id # r.id
              /\ \E n \in DOMAIN NewEvents :
                    /\ NewEvents[n].type = "append"
                    /\ NewEvents[n].table = name
                    /\ NewEvents[n].row = r
        \/ \E r \in old \ new :
              /\ new = old \ {r}
              /\ \E n \in DOMAIN NewEvents :
                    /\ NewEvents[n].type = "delete"
                    /\ NewEvents[n].table = name
                    /\ NewEvents[n].row = r

\* C20: no step modifies a stored record: a step leaves every row of both
\* tables as it is or deletes it, and a table changes only by the append of
\* one new row or the delete of one stored row.
C20_RecordsAreImmutable ==
    [][/\ OneAppendOrDelete(payments_in, payments_in', "payments_in")
       /\ OneAppendOrDelete(payments_out, payments_out', "payments_out")
       /\ \A r \in payments_in : \A x \in payments_in' : x.id = r.id => x = r
       /\ \A r \in payments_out : \A x \in payments_out' : x.id = r.id => x = r
      ]_vars

\* Two records were appended and one of them was deleted: the other is
\* stored as it was appended.
C20_Witness ==
    \E a, b, c \in DOMAIN log :
        /\ a < b /\ b < c
        /\ log[a].type = "append" /\ log[b].type = "append"
        /\ log[c].type = "delete"
        /\ log[c].row \in {log[a].row, log[b].row}
        /\ \E r \in {log[a].row, log[b].row} \ {log[c].row} :
              r \in payments_in \cup payments_out

\* The characters of a token that are digits, commas or periods, in order.
RECURSIVE NumberChars(_)
NumberChars(t) ==
    IF t = << >> THEN << >>
    ELSE IF Head(t) \in {"0", "1", "2", "3", "4", "5", "6", "7", "8", "9", ",", "."}
    THEN <<Head(t)>> \o NumberChars(Tail(t))
    ELSE NumberChars(Tail(t))

Count(t, c) == Cardinality({i \in 1..Len(t) : t[i] = c})

\* The string the three rules leave of a token.
AmountString(t) ==
    LET kept == NumberChars(t)
    IN  IF Count(kept, ",") > 0 /\ Count(kept, ".") > 0
        THEN SelectSeq(kept, LAMBDA c : c # ",")
        ELSE [i \in 1..Len(kept) |-> IF kept[i] = "," THEN "." ELSE kept[i]]

\* A decimal number: digits with at most one period among them.
IsDecimalNumber(n) == Count(n, ".") <= 1 /\ Len(n) > Count(n, ".")

\* The digits of a decimal number as an integer, and how many of them
\* follow the period.
AllDigits(n) == DigitsValue(SelectSeq(n, LAMBDA c : c # "."), 0)

DigitsAfterPeriod(n) ==
    IF Count(n, ".") = 0 THEN 0
    ELSE Len(n) - (CHOOSE i \in 1..Len(n) : n[i] = ".")

\* C15: parse_amount drops every character that is no digit, comma or
\* period; with a comma and a period left it removes the commas, with
\* commas only it reads them as periods, else it reads the string as it is;
\* the result is null exactly when the string left is no decimal number,
\* and else the number the string writes, which is never negative.
\* '1,234.56' and '1234,56' give 1234.56; 'abc', the empty token and a
\* token with two periods give null.
C15_AmountByTheCommaRule ==
    p_call = "parse_amount" =>
        LET n == AmountString(p_text)
        IN  /\ p_result = None <=> ~IsDecimalNumber(n)
            /\ IsDecimalNumber(n) =>
                  /\ p_result.mant >= 0
                  /\ p_result.exp <= DigitsAfterPeriod(n)
                  /\ p_result.mant * Pow10(DigitsAfterPeriod(n) - p_result.exp)
                        = AllDigits(n)
            /\ p_text \in { <<"1", ",", "2", "3", "4", ".", "5", "6">>,
                            <<"1", "2", "3", "4", ",", "5", "6">> }
                  => p_result = [mant |-> 123456, exp |-> 2]
            /\ p_text \in { <<"a", "b", "c">>, << >>,
                            <<"1", ".", "2", ".", "3">> }
                  => p_result = None

\* A token with a thousands comma and a decimal period was read.
C15_Witness ==
    /\ p_call = "parse_amount"
    /\ p_text = <<"1", ",", "2", "3", "4", ".", "5", "6">>
    /\ p_result = [mant |-> 123456, exp |-> 2]

\* The parts of a token between the occurrences of a separator.
RECURSIVE SplitBy(_, _)
SplitBy(t, sep) ==
    IF \A i \in 1..Len(t) : t[i] # sep THEN <<t>>
    ELSE LET i == CHOOSE k \in 1..Len(t) :
                      t[k] = sep /\ \A j \in 1..(k - 1) : t[j] # sep
         IN  <<SubSeq(t, 1, i - 1)>> \o SplitBy(SubSeq(t, i + 1, Len(t)), sep)

AllDigitsIn(part) == \A i \in 1..Len(part) : IsDigit(part[i])

\* A day or month as the formats read it: one or two digits, or for a day
\* a blank and a digit; 0 if the part is none.
DayOrMonth(part, most, blank) ==
    LET digits == IF blank /\ Len(part) = 2 /\ part[1] = " "
                  THEN Tail(part) ELSE part
        v == DigitsValue(digits, 0)
    IN  IF Len(digits) \in {1, 2} /\ AllDigitsIn(digits) /\ v >= 1 /\ v <= most
           /\ (digits # part => Len(digits) = 1)
        THEN v ELSE 0

\* The last day of a month.
LastDay(y, m) ==
    CASE m \in {1, 3, 5, 7, 8, 10, 12} -> 31
      [] m \in {4, 6, 9, 11} -> 30
      [] OTHER -> IF y % 400 = 0 \/ (y % 4 = 0 /\ y % 100 # 0) THEN 29 ELSE 28

\* The shapes of the five formats: separator, place of the year (first or
\* last) and number of its digits.
FormatShapes ==
    << [sep |-> ".", year_first |-> FALSE, year_digits |-> 4],
       [sep |-> ".", year_first |-> FALSE, year_digits |-> 2],
       [sep |-> "-", year_first |-> TRUE, year_digits |-> 4],
       [sep |-> "/", year_first |-> FALSE, year_digits |-> 4],
       [sep |-> "-", year_first |-> FALSE, year_digits |-> 4] >>

\* What format k reads in the whole of token t: the day, the month and the
\* digits of the year, or None.
ReadBy(k, t) ==
    LET f == FormatShapes[k]
        parts == SplitBy(t, f.sep)
    IN  IF Len(parts) # 3 THEN None
        ELSE LET yp == IF f.year_first THEN parts[1] ELSE parts[3]
                 dp == IF f.year_first THEN parts[3] ELSE parts[1]
                 d == DayOrMonth(dp, 31, TRUE)
                 m == DayOrMonth(parts[2], 12, FALSE)
                 y == DigitsValue(yp, 0)
             IN  IF Len(yp) # f.year_digits \/ ~AllDigitsIn(yp) \/ d = 0 \/ m = 0
                 THEN None
                 ELSE IF f.year_digits = 4 /\ (y = 0 \/ d > LastDay(y, m))
                 THEN None
                 ELSE IF f.year_digits = 2
                         /\ d > LastDay(1900 + y, m) /\ d > LastDay(2000 + y, m)
                 THEN None
                 ELSE [d |-> d, m |-> m, year |-> y, digits |-> f.year_digits]

\* C17: parse_date returns the date that the first of DD.MM.YYYY, DD.MM.YY,
\* YYYY-MM-DD, DD/MM/YYYY, DD-MM-YYYY reads in the whole trimmed token, and
\* null if none of them reads it; no token is read by two of the formats;
\* '01.02.2026' and '2026-02-01' give 1 February 2026, and a token with a
\* trailing character or with a day or month that does not exist gives
\* null.  The century of a two-digit year is left open.
C17_FirstFormatOfTheWholeToken ==
    p_call = "parse_date" =>
        LET t == Strip(p_text)
            reading == {k \in 1..Len(FormatShapes) : ReadBy(k, t) # None}
        IN  /\ Cardinality(reading) <= 1
            /\ reading = {} <=> p_result = None
            /\ \A k \in reading :
                  /\ p_result.d = ReadBy(k, t).d
                  /\ p_result.m = ReadBy(k, t).m
                  /\ IF ReadBy(k, t).digits = 4
                     THEN p_result.y = ReadBy(k, t).year
                     ELSE p_result.y % 100 = ReadBy(k, t).year
                  /\ p_result.d <= LastDay(p_result.y, p_result.m)
            /\ p_text \in { <<"0", "1", ".", "0", "2", ".", "2", "0", "2", "6">>,
                            <<"2", "0", "2", "6", "-", "0", "2", "-", "0", "1">> }
                  => p_result = [y |-> 2026, m |-> 2, d |-> 1]
            /\ p_text \in { <<"0", "1", ".", "0", "2", ".", "2", "0", "2", "6", "x">>,
                            <<"3", "2", ".", "0", "2", ".", "2", "0", "2", "6">>,
                            <<"3", "0", ".", "0", "2", ".", "2", "0", "2", "6">>,
                            <<"0", "1", ".", "1", "3", ".", "2", "0", "2", "6">> }
                  => p_result = None

\* The ISO form of 1 February 2026 was read by the third format, after the
\* first two had failed.
C17_Witness ==
    /\ p_call = "parse_date"
    /\ p_text = <<"2", "0", "2", "6", "-", "0", "2", "-", "0", "1">>
    /\ p_result = [y |-> 2026, m |-> 2, d |-> 1]

(***************************************************************************)
(* The parsers as functions, the keys of a cancellation, reactions, and    *)
(* the reports                                                             *)
(***************************************************************************)

\* The classes of the diagnostics of a failed parse.
ErrorClasses == {"Missing fields", "Invalid date format", "Invalid amount format"}

\* C21: parse_payin_message and parse_payout_message are total: on every
\* text each of them returns, and what it returns is either a success with
\* data and no error or a failure with an error and no data.
C21_ParsersAreTotal ==
    /\ p_call = "none" =>
          /\ parse_payin_message(p_text).success \in BOOLEAN
          /\ parse_payout_message(p_text).success \in BOOLEAN
    /\ p_call \in Parsers =>
          /\ p_result.success \in BOOLEAN
          /\ IF p_result.success
             THEN p_result.data # None /\ p_result.error = None
             ELSE /\ p_result.data = None
                  /\ p_result.error # None
                  /\ p_result.error.class \in ErrorClasses

\* A parse failed with a diagnostic and another succeeded with a record
\* (the two are different states; this is the failure).
C21_Witness ==
    /\ p_call \in Parsers
    /\ ~p_result.success
    /\ p_result.error # None
    /\ p_result.data = None

\* C26: the classifier never drops a parseable message: on every text that
\* parse_payin_message or parse_payout_message parses with success,
\* looks_like_payment_message is true.
C26_ParseableIsAccepted ==
    /\ p_call \in Parsers /\ p_result.success => looks_like_payment_message(p_text)
    /\ p_call = "looks_like_payment_message" /\ ~p_result.value =>
          /\ ~parse_payin_message(p_text).success
          /\ ~parse_payout_message(p_text).success

\* A text was parsed with success.
C26_Witness ==
    /\ p_call \in Parsers
    /\ p_result.success
    /\ looks_like_payment_message(p_text)

\* The cancellation requests whose handler deleted row r.
DeletedBy(r) ==
    {n \in DOMAIN log : log[n].type = "delete" /\ log[n].row = r}

\* C23: a cancellation deletes only a record whose message identifier and
\* conversation identifier are those of the message replied to, from the
\* table of its conversation: each deleted row has the keys of its request,
\* and a record that is gone was deleted by a request of its own
\* conversation replying to its own message.
C23_DeletesByBothKeys ==
    /\ \A n \in DOMAIN log :
          log[n].type = "delete" =>
             LET m == messages[log[n].msg]
             IN  /\ log[n].row.message_id = m.reply_to
                 /\ log[n].row.chat_id = m.chat_id
                 /\ log[n].table = (IF m.chat_id = payout_chat_id
                                    THEN "payments_out" ELSE "payments_in")
    /\ \A n \in DOMAIN log :
          log[n].type = "append" /\ log[n].row \notin TableOf(log[n].row.chat_id)
          => \E k \in DeletedBy(log[n].row) :
                /\ messages[log[k].msg].chat_id = log[n].row.chat_id
                /\ messages[log[k].msg].reply_to = log[n].row.message_id
    /\ \A r \in payments_in : r.chat_id # payout_chat_id
    /\ \A r \in payments_out : r.chat_id = payout_chat_id

\* Both pay-in conversations stored a record of the same message
\* identifier, a cancellation in one deleted its record, and the record of
\* the other is stored.
C23_Witness ==
    \E n \in DOMAIN log :
        /\ log[n].type = "delete"
        /\ log[n].table = "payments_in"
        /\ \E r \in payments_in :
              /\ r.message_id = log[n].row.message_id
              /\ r.chat_id # log[n].row.chat_id

\* Cancellation requests i and j, both answered, are for one message whose
\* record was stored before either of them looked it up.
TargetOneStoredRecord(i, j) ==
    /\ i # j
    /\ messages[i].chat_id = messages[j].chat_id
    /\ messages[i].reply_to = messages[j].reply_to
    /\ \E n \in DOMAIN log :
          /\ log[n].type = "append"
          /\ log[n].row.chat_id = messages[i].chat_id
          /\ log[n].row.message_id = messages[i].reply_to
          /\ \A k \in EventsOf(i, {"reply", "delete"}) \cup
                      EventsOf(j, {"reply", "delete"}) : n < k

ConfirmedCancels ==
    {i \in AnsweredCancels : log[ReplyTo(i)].body.class = "Transaction cancelled"}

RejectedTexts ==
    {t \in MessageTexts \cup {M_zero, M_both} :
        t = << >> \/ ~looks_like_payment_message(t)}

\* C25: reactions follow the store: a positive reaction on a message comes
\* right after the append of that message's record by the same handler, a
\* negative reaction on a message comes right after the delete of a record
\* of that message by the same handler, and a message that the classifier
\* or the parser rejected never gets a reaction.
C25_ReactionsFollowTheStore ==
    /\ \A n \in DOMAIN log :
          log[n].type = "react" =>
             /\ n > 1
             /\ log[n - 1].msg = log[n].msg
             /\ log[n - 1].row.message_id = log[n].message_id
             /\ log[n - 1].row.chat_id = log[n].chat_id
             /\ log[n - 1].type =
                   (IF log[n].emoji = "thumbs up" THEN "append" ELSE "delete")
             /\ log[n].emoji = "thumbs up" =>
                   log[n].message_id = messages[log[n].msg].message_id
    /\ \A i \in DOMAIN messages :
          LET m == messages[i]
          IN  /\ ~IsReply(m)
              /\ m.text \in RejectedTexts \/ (pc[i] = "done" /\ ~parsed[i].success)
              => \A n \in DOMAIN log :
                    log[n].type = "react" =>
                       ~(log[n].chat_id = m.chat_id /\ log[n].message_id = m.message_id)

\* A stored message got the positive reaction and, after its cancellation,
\* the negative one; and a message with the amount zero was refused.
C25_Witness ==
    /\ \E a, b \in DOMAIN log :
          /\ a < b
          /\ log[a].type = "react" /\ log[a].emoji = "thumbs up"
          /\ log[b].type = "react" /\ log[b].emoji = "thumbs down"
          /\ log[a].message_id = log[b].message_id
    /\ \E i \in DOMAIN messages :
          ~IsReply(messages[i]) /\ pc[i] = "done"
          /\ messages[i].text \notin RejectedTexts
          /\ ~parsed[i].success

\* C27: each store holds at most one record per conversation identifier and
\* message identifier (the transport of the model delivers each message
\* once).
C27_OneRecordPerMessage ==
    /\ \A r, x \in payments_in :
          r.chat_id = x.chat_id /\ r.message_id = x.message_id => r = x
    /\ \A r, x \in payments_out :
          r.chat_id = x.chat_id /\ r.message_id = x.message_id => r = x
    /\ \A a, b \in DOMAIN messages :
          messages[a].chat_id = messages[b].chat_id
          /\ messages[a].message_id = messages[b].message_id => a = b
    /\ \A a, b \in DOMAIN log :
          log[a].type = "append" /\ log[b].type = "append"
          /\ log[a].msg = log[b].msg => a = b

\* Two payments are stored, and a third message cancelled nothing of them:
\* the store holds one record for each.
C27_Witness ==
    /\ Cardinality(payments_in \cup payments_out) >= 2
    /\ \A i \in DOMAIN messages : pc[i] = "done"

QueriedTable == IF p_text = <<"PaymentInCRUD">> THEN payments_in ELSE payments_out

\* A list is in the order of date descending, then creation descending.
InReportOrder(list) ==
    \A a, b \in DOMAIN list :
        a < b => \/ toordinal(list[a].date) > toordinal(list[b].date)
                 \/ list[a].date = list[b].date /\ list[a].id > list[b].id

Elements(list) == {list[k] : k \in DOMAIN list}

\* C29: get_current_month returns all stored payments whose date lies in
\* the current calendar month, and get_last_7_days exactly the stored
\* payments whose date lies within the last 7 days up to today (the seven
\* days that end today at least, and nothing before the day a week ago or
\* after today); both in the order of date descending, then creation
\* descending.
C29_PeriodsOfTheReports ==
    p_call # "none" =>
       /\ InReportOrder(p_result)
       /\ Len(p_result) = Cardinality(Elements(p_result))
       /\ p_call = "get_current_month" =>
             Elements(p_result) =
                {r \in QueriedTable : r.date.y = callback.today.y
                                      /\ r.date.m = callback.today.m}
       /\ p_call = "get_last_7_days" =>
             /\ {r \in QueriedTable :
                   /\ toordinal(r.date) > toordinal(callback.today) - 7
                   /\ toordinal(r.date) <= toordinal(callback.today)}
                  \subseteq Elements(p_result)
             /\ Elements(p_result) \subseteq
                  {r \in QueriedTable :
                     /\ toordinal(r.date) >= toordinal(callback.today) - 7
                     /\ toordinal(r.date) <= toordinal(callback.today)}

\* The report a finished callback handler sent last.
LastSent(c) == c.sent[Len(c.sent)]

\* C28: a debit/credit or balance report shows total_incoming equal to the
\* sum of the amounts of the incoming records stored when it is sent (0
\* when there are none), total_outgoing likewise, the counts equal to the
\* numbers of stored records and the balance equal to total_incoming minus
\* total_outgoing; and a step of a callback handler changes neither store.
C28_ReportsShowTheStore ==
    [][callback' # callback =>
         /\ payments_in' = payments_in
         /\ payments_out' = payments_out
         /\ callback'.pc = "done"
            /\ callback'.handler \in {"callback_debit_credit", "callback_balance"}
            /\ callback'.reads # << >>
            => /\ LastSent(callback').total_incoming =
                     Hundredths(get_total_amount(payments_in))
               /\ LastSent(callback').total_outgoing =
                     Hundredths(get_total_amount(payments_out))
               /\ LastSent(callback').balance =
                     LastSent(callback').total_incoming
                        - LastSent(callback').total_outgoing
               /\ callback'.handler = "callback_debit_credit" =>
                     /\ LastSent(callback').incoming_count =
                           Cardinality(payments_in)
                     /\ LastSent(callback').outgoing_count =
                           Cardinality(payments_out)]_vars

\* C30: a callback query of someone who is not in admin_ids, or of no one,
\* makes its handler query nothing and send at most the access-denied
\* alert; and the main menu is the answer to /start of an administrator
\* only.
C30_OnlyAdministratorsAreServed ==
    /\ callback.handler # "none"
       /\ (callback.from_user = None \/ callback.from_user.id \notin admin_ids)
       => /\ callback.reads = << >>
          /\ callback.pc = "done"
          /\ \A k \in DOMAIN callback.sent :
                k = 1 /\ callback.sent[k] = [class |-> "Access denied"]
    /\ \A n \in DOMAIN log :
          log[n].type = "answer" => messages[log[n].msg].from_admin

\* With a record in a store, a user who is no administrator has asked for
\* the debit/credit report and got the alert.
C30_Witness ==
    /\ payments_in \cup payments_out # {}
    /\ callback.handler = "callback_debit_credit"
    /\ callback.from_user = [id |-> 202]
    /\ callback.sent = <<[class |-> "Access denied"]>>

====
